---- MODULE Spec2Model ----
(***************************************************************************)
(* State-machine model of the Studio component (src/unnamed/part_000):     *)
(* the two media elements BIG (bgRef) and SMALL (muRef), the Glue          *)
(* synchroniser, the global and per-track transport, and the recording     *)
(* session with its encoder, render loop and two stop triggers.            *)
(*                                                                         *)
(* Media time is counted in half seconds (one unit = 0.5 s), so that the   *)
(* loop-detection test "currentTime < prev - 0.5" reads                    *)
(* "time < prev - HalfSecond".  A time-update event of an element is an    *)
(* entry of pendingTU; a handler runs when its event is delivered and      *)
(* reads the element's position at that moment.  A queued time-update is   *)
(* delivered before the next input, timer or encoder event is handled      *)
(* (Quiet).                                                                *)
(***************************************************************************)
EXTENDS Integers, FiniteSets, Sequences, TLC

\* ---------------------------------------------------------------- bounds
MaxDur == 4              \* media durations are drawn from (MaxDur-1)..MaxDur
MaxSessions == 2         \* encoders (MediaRecorder objects) alive at once
VolSteps == 2            \* a fader takes the values 0..VolSteps (VolSteps is 1.0)

\* ------------------------------------------------------ program constants
RECORD_LIMIT_SEC == 100  \* const RECORD_LIMIT_SEC = 100
HalfSecond == 1          \* the 0.5 (seconds) of the loop-detection test

NULL == 0 - 1            \* a ref holding null (prevBgTimeRef, prevMuTimeRef)
Durations == (MaxDur - 1)..MaxDur
RecIds == 1..MaxSessions
Faders == 0..VolSteps
Full == VolSteps * VolSteps      \* element.volume 1, in units of 1/VolSteps^2
InitialFader == 1                \* the faders start strictly between 0 and 1

VARIABLES
  bgSrc, muSrc,          \* "none" | "file" | "preset"   (bgSrc, muSrc state)
  bgDur, muDur,          \* element.duration; 0 stands for NaN (no metadata yet)
  bgTime, muTime,        \* element.currentTime
  bgPaused, muPaused,    \* element.paused
  pendingTU,             \* elements with a queued timeupdate event
  isPlaying,             \* isPlaying state
  isGlued,               \* isGlued state
  glueOffsetSec,         \* glueOffsetSecRef.current
  prevBgTime, prevMuTime,\* prevBgTimeRef.current, prevMuTimeRef.current
  glueSyncGuard,         \* glueSyncGuardRef.current
  audioCtx,              \* audioCtxRef.current # null (with bg and master gain)
  muConnected,           \* muSourceRef.current # null
  bgVol, muVol, masterVol,   \* the three fader states
  bgVolume, muVolume,    \* element.volume of BIG and of SMALL
  bgGain, muGain, masterGain,  \* gain.value of the three nodes, NULL when absent
  ctxCount,              \* AudioContext objects created so far
  muConnects,            \* times SMALL's source was connected to the graph
  bgEl,                  \* bgRef.current # null: the BIG <video> is mounted
  isRecording,           \* isRecording state
  recTime,               \* recTime state
  recorderRef,           \* recorderRef.current: an encoder id, 0 for null
  recorders,             \* encoder id -> "none" | "recording" | "stopping"
  recIntervalArmed,      \* recIntervalRef.current # null
  recTimerArmed,         \* recordTimerRef.current # null
  recElapsed,            \* whole seconds since the two timers were armed
  intervalDue,           \* the 1-second interval has a callback due
  drawRafRef,            \* drawRafRef.current: the loop that set it, 0 for null
  liveLoops,             \* render loops with an animation frame scheduled
  pendingStarts,         \* startRecording calls suspended in waitForVideoReady
  startClosures,         \* the fader values each suspended call closed over
  recordedChunks,        \* recordedChunksRef.current: chunks by encoder id
  qrPayloadRef,          \* qrPayloadRef.current
  startPayload,          \* encoder id -> the payload generated at its start
  recordAudioDestRef,    \* recordAudioDestRef / recordOutStreamRef: owner id, 0 null
  taps,                  \* sessions whose audio tap and capture stream are live
  pendingRecordedBlob,   \* pendingRecordedBlob: its chunks (<<>> also for null)
  pendingRecordedUrl,    \* pendingRecordedUrl # null
  pendingQrPayload,      \* pendingQrPayload
  showSavePanel,         \* showSavePanel state
  selectedPackVideoUrl,  \* selectedPackVideoUrl # null
  mintFile,              \* mintFile: the picked clip, NoFile for null
  mintPreviewUrl,        \* mintPreviewUrl # null
  mintQrPayload,         \* mintQrPayload: the parsed payload, JsNull for null
  mintQrText,            \* mintQrText: the raw decoded text, NoText for null
  showMintModal,         \* showMintModal state
  mintScans,             \* clips whose handleMintFilePicked awaits its scan
  packs,                 \* packs state: the loaded list
  ev                     \* the handler that ran last, with its input

mediaVars == <<bgSrc, muSrc, bgDur, muDur, bgTime, muTime, bgPaused, muPaused, pendingTU>>
glueVars  == <<isGlued, glueOffsetSec, prevBgTime, prevMuTime, glueSyncGuard>>
faderVars == <<bgVol, muVol, masterVol>>
audioVars == <<audioCtx, muConnected, faderVars, bgVolume, muVolume, bgGain, muGain,
               masterGain, ctxCount, muConnects, bgEl>>
timerVars == <<recIntervalArmed, recTimerArmed, recElapsed, intervalDue>>
loopVars  == <<drawRafRef, liveLoops>>
artefactVars == <<recordedChunks, qrPayloadRef, startPayload, recordAudioDestRef, taps>>
saveVars  == <<pendingRecordedBlob, pendingRecordedUrl, pendingQrPayload, showSavePanel>>
mintVars  == <<mintFile, mintPreviewUrl, mintQrPayload, mintQrText, showMintModal,
               mintScans>>
urlVars   == <<selectedPackVideoUrl, mintVars, packs>>
recCore   == <<isRecording, recTime, recorderRef, recorders, timerVars, loopVars,
               pendingStarts, startClosures, artefactVars>>
recVars   == <<recCore, saveVars, urlVars>>
vars == <<mediaVars, isPlaying, glueVars, audioVars, recVars, ev>>

\* ev.chunks: the chunks the handler received; ev.dropped: the slots whose
\* object URL the handler replaced or cleared without revoking it.
\* ev.out: what the handler handed to its environment: the alert shown, the
\* exception it let escape, the file offered for download with its content,
\* the slots whose object URL it revoked, and a called function's result.
NoOut == [alert |-> "", threw |-> "", file |-> <<>>, content |-> <<>>,
          revoked |-> {}, res |-> <<>>]
EvOut(op, arg, chunks, dropped, out) ==
  [op |-> op, arg |-> arg, chunks |-> chunks, dropped |-> dropped, out |-> out]
EvFull(op, arg, chunks, dropped) == EvOut(op, arg, chunks, dropped, NoOut)
Ev(op, arg) == EvFull(op, arg, <<>>, {})

\* QrPayload: id is the session's token, volumes the three faders.
Payload(id, vols) == [id |-> id, volumes |-> vols]
NoPayload == Payload(0, <<0, 0, 0>>)
NoEv == Ev("-", 0)

MuExists == muSrc # "none"       \* the SMALL <video> is rendered only with muSrc

\* ------------------------------------------------------ JavaScript values
\* A primitive by its type and contents: a string is the sequence of its
\* characters, a number the one-element sequence of its value.
Js(t, v) == [t |-> t, v |-> v]
JsUndefined == Js("undefined", <<>>)
JsStr(s) == Js("string", s)
JsNum(n) == Js("number", <<n>>)

\* The value of a volumes property: a primitive, or an object by its three
\* properties.
Vols(t, v, big, small, master) ==
  [t |-> t, v |-> v, big |-> big, small |-> small, master |-> master]
NoVols == Vols("undefined", <<>>, JsUndefined, JsUndefined, JsUndefined)

\* What JSON.parse returns: a primitive or an array, or an object by the
\* three properties the payload check reads.
Val(t, v, id, createdAt, volumes) ==
  [t |-> t, v |-> v, id |-> id, createdAt |-> createdAt, volumes |-> volumes]
JsNull == Val("null", <<>>, JsUndefined, JsUndefined, NoVols)

\* A text is JSON denoting a value or it is not JSON; NoText stands for null
\* where a text is expected.
JsonText(val) == [syntax |-> "json", val |-> val]
Garbage == [syntax |-> "garbage", val |-> JsNull]
NoText == [syntax |-> "none", val |-> JsNull]

TypeOf(x) == IF x.t \in {"null", "array", "object"} THEN "object" ELSE x.t

\* ToBoolean: undefined, null, 0 and "" are falsy.
Truthy(x) ==
  /\ x.t \notin {"undefined", "null"}
  /\ x.t = "number" => x.v # <<0>>
  /\ x.t = "string" => x.v # <<>>

\* vols[name] for a truthy vols: an object's own property; of a string, the
\* methods String.prototype.big and String.prototype.small; else undefined.
Member(vols, name) ==
  IF vols.t = "object"
    THEN (CASE name = "big" -> vols.big
            [] name = "small" -> vols.small
            [] OTHER -> vols.master)
    ELSE IF vols.t = "string" /\ name \in {"big", "small"}
           THEN Js("function", <<>>)
           ELSE JsUndefined

HasPrefix_Contains(s, p) ==
  \E i \in 1..Len(s) : i + Len(p) - 1 <= Len(s) /\ SubSeq(s, i, i + Len(p) - 1) = p

\* String.prototype.startsWith
HasPrefix(s, p) == Len(s) >= Len(p) /\ SubSeq(s, 1, Len(p)) = p

GwMarker == <<"g", "w", "-">>

\* isGoodwillsQRPayload by the truthiness of what it returns; a text that is
\* not JSON makes JSON.parse throw inside the try, and the catch returns false.
isGoodwillsQRPayload(txt) ==
  IF txt.syntax # "json"
    THEN FALSE
    ELSE LET obj == txt.val
         IN /\ Truthy(obj)
            /\ TypeOf(obj) = "object"
            /\ TypeOf(obj.id) = "string"
            /\ HasPrefix(obj.id.v, GwMarker)
            /\ TypeOf(obj.createdAt) = "string"
            /\ Truthy(obj.volumes)
            /\ TypeOf(Member(obj.volumes, "big")) = "number"
            /\ TypeOf(Member(obj.volumes, "small")) = "number"
            /\ TypeOf(Member(obj.volumes, "master")) = "number"

\* ------------------------------------------------------------ QR scan
\* The sample timestamps of the scan, in twentieths of a second.
ScanTimes == <<3, 7, 12, 18, 24, 32, 40>>

\* A clip: whether its metadata loads, its duration in twentieths of a second
\* (0 when the element reports none), and for each sample timestamp what jsQR
\* decodes from the top-left crop and from the full frame of the frame shown
\* there (NoText when it finds no code).  NoFile stands for null.
NoFile == [name |-> "", loads |-> FALSE, dur |-> 0, frames |-> <<>>]

\* v.duration || 9999
ScanLimit(clip) == IF clip.dur = 0 THEN 9999 * 20 ELSE clip.dur

\* code?.data && isGoodwillsQRPayload(code.data)
AcceptedDecode(txt) == txt # NoText /\ isGoodwillsQRPayload(txt)

RECURSIVE ScanFrom(_, _, _)
\* The loop over the remaining timestamps: seek, draw, decode the crop and
\* then the full frame; visited lists the decodes made so far.
ScanFrom(clip, times, visited) ==
  IF times = <<>>
    THEN [ok |-> FALSE, payloadText |-> NoText, payload |-> JsNull, visited |-> visited]
    ELSE LET t == Head(times)
             fr == clip.frames[t]
             v1 == Append(visited, <<t, "crop">>)
             v2 == Append(v1, <<t, "full">>)
         IN IF AcceptedDecode(fr.crop)
              THEN [ok |-> TRUE, payloadText |-> fr.crop, payload |-> fr.crop.val,
                    visited |-> v1]
              ELSE IF AcceptedDecode(fr.full)
                     THEN [ok |-> TRUE, payloadText |-> fr.full,
                           payload |-> fr.full.val, visited |-> v2]
                     ELSE ScanFrom(clip, Tail(times), v2)

ScanBelow(t, lim) == t < lim

\* scanGoodwillsQrFromFile once the metadata has loaded.
ScanLoaded(clip) ==
  ScanFrom(clip, SelectSeq(ScanTimes, LAMBDA t : ScanBelow(t, ScanLimit(clip))), <<>>)

\* The exception scanGoodwillsQrFromFile lets escape: the element's error
\* event rejects the promise the scan awaits.
ScanThrows(clip) == IF clip.loads THEN "" ELSE "Video load error"

\* ------------------------------------------------------------- wrapTime
\* JavaScript's %: the remainder takes the sign of the dividend.
JsRem(t, d) == IF t >= 0 THEN t % d ELSE 0 - ((0 - t) % d)

wrapTime_NoNegativeFix(t, dur) ==
  IF dur <= 0 THEN 0 ELSE JsRem(t, dur)

wrapTime(t, dur) ==
  IF dur <= 0 THEN 0
  ELSE LET m == JsRem(t, dur) IN IF m < 0 THEN m + dur ELSE m

\* ------------------------------------------------------------------ Init
\* No take has been recorded and no object URL created.
ArtefactsFresh ==
  /\ startClosures = <<>>
  /\ recordedChunks = <<>>
  /\ qrPayloadRef = NoPayload
  /\ startPayload = [r \in RecIds |-> NoPayload]
  /\ recordAudioDestRef = 0 /\ taps = {}
  /\ pendingRecordedBlob = <<>> /\ pendingRecordedUrl = FALSE
  /\ pendingQrPayload = NoPayload
  /\ showSavePanel = FALSE
  /\ selectedPackVideoUrl = FALSE
  /\ mintFile = NoFile /\ mintPreviewUrl = FALSE
  /\ mintQrPayload = JsNull /\ mintQrText = NoText
  /\ showMintModal = FALSE /\ mintScans = <<>>
  /\ packs = <<>>

\* The mounted component before any audio graph: the mount effect has written
\* BIG's volume; a <video> element is created with volume 1.
AudioFresh ==
  /\ audioCtx = FALSE /\ muConnected = FALSE
  /\ bgVol = InitialFader /\ muVol = InitialFader /\ masterVol = InitialFader
  /\ bgEl = TRUE
  /\ bgVolume = bgVol * masterVol
  /\ muVolume = Full
  /\ bgGain = NULL /\ muGain = NULL /\ masterGain = NULL
  /\ ctxCount = 0 /\ muConnects = 0

\* The audio state after a first playback with the sources already loaded.
AudioBuilt ==
  /\ audioCtx = TRUE /\ muConnected = MuExists
  /\ bgVol = InitialFader /\ muVol = InitialFader /\ masterVol = InitialFader
  /\ bgEl = TRUE
  /\ bgVolume = Full /\ muVolume = Full
  /\ bgGain = bgVol /\ masterGain = masterVol
  /\ muGain = (IF MuExists THEN muVol ELSE NULL)
  /\ ctxCount = 1 /\ muConnects = (IF MuExists THEN 1 ELSE 0)

Init ==
  /\ bgSrc = "none" /\ muSrc = "none"
  /\ bgDur = 0 /\ muDur = 0
  /\ bgTime = 0 /\ muTime = 0
  /\ bgPaused = TRUE /\ muPaused = TRUE
  /\ pendingTU = {}
  /\ isPlaying = FALSE
  /\ isGlued = FALSE
  /\ glueOffsetSec = 0
  /\ prevBgTime = NULL /\ prevMuTime = NULL
  /\ glueSyncGuard = FALSE
  /\ AudioFresh
  /\ isRecording = FALSE
  /\ recTime = 0
  /\ recorderRef = 0
  /\ recorders = [r \in RecIds |-> "none"]
  /\ recIntervalArmed = FALSE /\ recTimerArmed = FALSE
  /\ recElapsed = 0 /\ intervalDue = FALSE
  /\ drawRafRef = 0 /\ liveLoops = {}
  /\ pendingStarts = 0
  /\ ArtefactsFresh
  /\ ev = NoEv

\* ------------------------------------------------------- audio graph
ContextExists_Never == FALSE

\* if (audioCtxRef.current) return
ContextExists == audioCtx

\* The context is recorded first; createMediaElementSource(bgRef.current!)
\* throws when the BIG element is missing, which leaves the context recorded
\* without gain nodes.  The faders are read, never written.
ensureAudioContext ==
  /\ UNCHANGED <<faderVars, bgEl>>
  /\ IF ContextExists
       THEN UNCHANGED <<audioCtx, bgVolume, muVolume, bgGain, masterGain, ctxCount>>
       ELSE /\ audioCtx' = TRUE
            /\ ctxCount' = ctxCount + 1
            /\ bgVolume' = (IF bgEl THEN Full ELSE bgVolume)
            /\ muVolume' = (IF MuExists THEN Full ELSE muVolume)
            /\ bgGain' = (IF bgEl THEN bgVol ELSE NULL)
            /\ masterGain' = (IF bgEl THEN masterVol ELSE NULL)

MiniConnects_Again(ctx) == ctx /\ MuExists

\* if (!ctx) return; if (!muRef.current) return; if (muSourceRef.current) return
MiniConnects(ctx) == ctx /\ MuExists /\ ~muConnected

\* Always called right after ensureAudioContext, hence on the new audioCtx.
ensureMiniConnected ==
  IF MiniConnects(audioCtx')
    THEN /\ muConnected' = TRUE
         /\ muGain' = muVol
         /\ muConnects' = muConnects + 1
    ELSE UNCHANGED <<muConnected, muGain, muConnects>>

\* ------------------------------------------------------------- faders
DirectMode_Always == TRUE

\* if (!audioCtxRef.current)
DirectMode == ~audioCtx

\* useEffect([bgVol, muVol, masterVol]) after a render with new fader values.
VolumeEffect ==
  IF DirectMode
    THEN /\ bgVolume' = (IF bgEl THEN bgVol' * masterVol' ELSE bgVolume)
         /\ muVolume' = (IF MuExists THEN muVol' * masterVol' ELSE muVolume)
         /\ UNCHANGED <<bgGain, muGain, masterGain>>
    ELSE /\ bgGain' = (IF bgGain # NULL THEN bgVol' ELSE bgGain)
         /\ muGain' = (IF muGain # NULL THEN muVol' ELSE muGain)
         /\ masterGain' = (IF masterGain # NULL THEN masterVol' ELSE masterGain)
         /\ UNCHANGED <<bgVolume, muVolume>>

\* The fader inputs: setBgVol, setMuVol, setMasterVol with a new value.
SetFader(which, v) ==
  /\ bgVol' = (IF which = "bg" THEN v ELSE bgVol)
  /\ muVol' = (IF which = "mu" THEN v ELSE muVol)
  /\ masterVol' = (IF which = "master" THEN v ELSE masterVol)
  /\ <<bgVol', muVol', masterVol'>> # <<bgVol, muVol, masterVol>>
  /\ VolumeEffect
  /\ ev' = Ev("setFader", 0)
  /\ UNCHANGED <<mediaVars, isPlaying, glueVars, audioCtx, muConnected, ctxCount,
                 muConnects, bgEl, recVars>>

\* --------------------------------------------------------- stopRecording
CancelStopTriggers_IntervalOnly ==
  /\ recIntervalArmed' = FALSE
  /\ intervalDue' = FALSE
  /\ UNCHANGED <<recTimerArmed, recElapsed>>

\* clearInterval(recIntervalRef) and clearTimeout(recordTimerRef), each only
\* when its ref is set, and both refs nulled.
CancelStopTriggers ==
  /\ recIntervalArmed' = FALSE
  /\ recTimerArmed' = FALSE
  /\ recElapsed' = 0
  /\ intervalDue' = FALSE

\* rec.stop() makes the encoder inactive at once; its stop event (RecOnStop)
\* is delivered later.
stopRecording ==
  /\ CancelStopTriggers
  /\ bgPaused' = TRUE
  /\ muPaused' = TRUE
  /\ isPlaying' = FALSE
  /\ IF recorderRef # 0 /\ recorders[recorderRef] = "recording"
       THEN /\ recorders' = [recorders EXCEPT ![recorderRef] = "stopping"]
            /\ isRecording' = isRecording
       ELSE /\ recorders' = recorders
            /\ isRecording' = FALSE

\* What a handler that only calls stopRecording leaves alone.
StopOnly ==
  /\ stopRecording
  /\ UNCHANGED <<bgSrc, muSrc, bgDur, muDur, bgTime, muTime, pendingTU,
                 glueVars, audioVars, recTime, recorderRef, loopVars, pendingStarts,
                 startClosures, artefactVars, saveVars, urlVars>>

\* The same for the tick, which also returns 0 as the new recTime.
StopAndResetTime ==
  /\ stopRecording
  /\ recTime' = 0
  /\ UNCHANGED <<bgSrc, muSrc, bgDur, muDur, bgTime, muTime, pendingTU,
                 glueVars, audioVars, recorderRef, loopVars, pendingStarts,
                 startClosures, artefactVars, saveVars, urlVars>>

\* ------------------------------------------------------ global transport
handleGlobalPlayPause ==
  IF isRecording
    THEN StopOnly /\ ev' = Ev("stopUser", 0)
    ELSE /\ ensureAudioContext
         /\ ensureMiniConnected
         /\ bgPaused' = isPlaying
         /\ muPaused' = IF MuExists THEN isPlaying ELSE muPaused
         /\ isPlaying' = ~isPlaying
         /\ ev' = Ev("globalPlayPause", IF ~audioCtx THEN 0
                                        ELSE IF ~muConnected THEN 1 ELSE 2)
         /\ UNCHANGED <<bgSrc, muSrc, bgDur, muDur, bgTime, muTime, pendingTU,
                        glueVars, recVars>>

\* Writing currentTime seeks, and a seek of loaded media emits a timeupdate.
Seeked(track, dur) == IF dur > 0 THEN {track} ELSE {}

handleGlobalStop ==
  IF isRecording
    THEN StopOnly /\ ev' = Ev("stopUser", 0)
    ELSE /\ bgPaused' = TRUE
         /\ bgTime' = 0
         /\ muPaused' = TRUE
         /\ muTime' = 0
         /\ pendingTU' = pendingTU \cup Seeked("bg", bgDur) \cup Seeked("mu", muDur)
         /\ isPlaying' = FALSE
         /\ recTime' = 0
         /\ ev' = NoEv
         /\ UNCHANGED <<bgSrc, muSrc, bgDur, muDur, glueVars, audioVars,
                        isRecording, recorderRef, recorders, timerVars, loopVars,
                        pendingStarts, startClosures, artefactVars, saveVars,
                        urlVars>>

\* Mint stops a take; otherwise it clears the mint dialog's state and opens
\* the file picker (MintPick is the user's choice of a clip).
handleGlobalMint ==
  IF isRecording
    THEN StopOnly /\ ev' = Ev("stopUser", 0)
    ELSE /\ mintFile' = NoFile
         /\ mintPreviewUrl' = FALSE
         /\ mintQrPayload' = JsNull
         /\ mintQrText' = NoText
         /\ ev' = [NoEv EXCEPT !.out.revoked = IF mintPreviewUrl THEN {"mint"} ELSE {}]
         /\ UNCHANGED <<mediaVars, isPlaying, glueVars, audioVars, recCore, saveVars,
                        selectedPackVideoUrl, showMintModal, mintScans, packs>>

\* ------------------------------------------------------ loop-aware glue
SyncSuppressed_IgnoresRecording == ~isGlued \/ ~isPlaying

\* if (!isGlued || !isPlaying || isRecording)
SyncSuppressed == ~isGlued \/ ~isPlaying \/ isRecording

IsLoopJump_AnyBackward(cur, prev) == cur < prev

\* a sudden jump backwards: currentTime < prev - 0.5
IsLoopJump(cur, prev) == cur < prev - HalfSecond

\* delta = (duration - prev) + currentTime
LoopDelta(dur, prev, cur) == (dur - prev) + cur

\* ev.arg: 1 when the reading is a loop jump against the previous one;
\* ev.out.res: the track and the position the handler wrote, if it wrote.
handleBgTimeUpdate ==
  LET e == Ev("bgTU", IF prevBgTime # NULL /\ IsLoopJump(bgTime, prevBgTime) THEN 1 ELSE 0)
  IN
  /\ "bg" \in pendingTU
  /\ UNCHANGED <<bgSrc, muSrc, bgDur, muDur, bgTime, bgPaused, muPaused, isPlaying,
                 isGlued, glueOffsetSec, prevMuTime, audioVars, recVars>>
  /\ IF bgDur = 0
       THEN /\ pendingTU' = pendingTU \ {"bg"}
            /\ ev' = e
            /\ UNCHANGED <<muTime, prevBgTime, glueSyncGuard>>
     ELSE IF SyncSuppressed \/ glueSyncGuard
       THEN /\ prevBgTime' = bgTime
            /\ pendingTU' = pendingTU \ {"bg"}
            /\ ev' = e
            /\ UNCHANGED <<muTime, glueSyncGuard>>
     ELSE /\ prevBgTime' = bgTime
          /\ glueSyncGuard' = FALSE
          /\ IF prevBgTime # NULL /\ IsLoopJump(bgTime, prevBgTime)
                /\ MuExists /\ muDur > 0
               THEN /\ muTime' = wrapTime(muTime + LoopDelta(bgDur, prevBgTime, bgTime), muDur)
                    /\ pendingTU' = (pendingTU \ {"bg"}) \cup {"mu"}
                    /\ ev' = [e EXCEPT !.out.res = <<"mu", muTime'>>]
               ELSE /\ muTime' = muTime
                    /\ pendingTU' = pendingTU \ {"bg"}
                    /\ ev' = e

handleMuTimeUpdate ==
  LET e == Ev("muTU", IF prevMuTime # NULL /\ IsLoopJump(muTime, prevMuTime) THEN 1 ELSE 0)
  IN
  /\ "mu" \in pendingTU
  /\ UNCHANGED <<bgSrc, muSrc, bgDur, muDur, muTime, bgPaused, muPaused, isPlaying,
                 isGlued, glueOffsetSec, prevBgTime, audioVars, recVars>>
  /\ IF ~MuExists \/ muDur = 0
       THEN /\ pendingTU' = pendingTU \ {"mu"}
            /\ ev' = e
            /\ UNCHANGED <<bgTime, prevMuTime, glueSyncGuard>>
     ELSE IF SyncSuppressed \/ glueSyncGuard
       THEN /\ prevMuTime' = muTime
            /\ pendingTU' = pendingTU \ {"mu"}
            /\ ev' = e
            /\ UNCHANGED <<bgTime, glueSyncGuard>>
     ELSE /\ prevMuTime' = muTime
          /\ glueSyncGuard' = FALSE
          /\ IF prevMuTime # NULL /\ IsLoopJump(muTime, prevMuTime) /\ bgDur > 0
               THEN /\ bgTime' = wrapTime(bgTime + LoopDelta(muDur, prevMuTime, muTime), bgDur)
                    /\ pendingTU' = (pendingTU \ {"mu"}) \cup {"bg"}
                    /\ ev' = [e EXCEPT !.out.res = <<"bg", bgTime'>>]
               ELSE /\ bgTime' = bgTime
                    /\ pendingTU' = pendingTU \ {"mu"}
                    /\ ev' = e

\* ------------------------------------------------------- manual scrubs
\* The range input runs from 0 to 1; value = k / duration for k in 0..duration,
\* so that value * duration = k.
handleBgTimelineChange(k) ==
  /\ ev' = Ev("bgScrub", 0)
  /\ UNCHANGED <<bgSrc, muSrc, bgDur, muDur, bgPaused, muPaused, isPlaying,
                 glueVars, audioVars, recVars>>
  /\ IF bgDur = 0
       THEN UNCHANGED <<bgTime, muTime, pendingTU>>
       ELSE /\ bgTime' = k
            /\ IF isGlued /\ MuExists /\ muDur > 0
                 THEN /\ muTime' = wrapTime(k + glueOffsetSec, muDur)
                      /\ pendingTU' = pendingTU \cup {"bg", "mu"}
                 ELSE /\ muTime' = muTime
                      /\ pendingTU' = pendingTU \cup {"bg"}

handleMuTimelineChange(k) ==
  /\ MuExists                      \* onChange: muSrc && ..., disabled={!muSrc}
  /\ ev' = Ev("muScrub", 0)
  /\ UNCHANGED <<bgSrc, muSrc, bgDur, muDur, bgPaused, muPaused, isPlaying,
                 glueVars, audioVars, recVars>>
  /\ IF muDur = 0
       THEN UNCHANGED <<bgTime, muTime, pendingTU>>
       ELSE /\ muTime' = k
            /\ IF isGlued /\ bgDur > 0
                 THEN /\ bgTime' = wrapTime(k - glueOffsetSec, bgDur)
                      /\ pendingTU' = pendingTU \cup {"bg", "mu"}
                 ELSE /\ bgTime' = bgTime
                      /\ pendingTU' = pendingTU \cup {"mu"}

\* ------------------------------------------------------------ toggleGlue
CaptureOffset_KeepsEarlier == IF glueOffsetSec # 0 THEN glueOffsetSec ELSE muTime - bgTime

\* glueOffsetSecRef.current = (mu.currentTime || 0) - (bg.currentTime || 0)
CaptureOffset == muTime - bgTime

GlueAllowed_Always == TRUE

\* if (!muSrc) return
GlueAllowed == MuExists

ShouldCapture_Always(next) == TRUE

\* const next = !prev; if (next) { ... capture ... }
ShouldCapture(next) == next

\* ev.arg: 0 the offset kept its value, 1 it replaced the initial 0,
\* 2 it replaced an offset captured earlier.
toggleGlue ==
  /\ UNCHANGED <<mediaVars, isPlaying, prevBgTime, prevMuTime, glueSyncGuard,
                 audioVars, recVars>>
  /\ IF ~GlueAllowed
       THEN UNCHANGED <<isGlued, glueOffsetSec>>
       ELSE /\ isGlued' = ~isGlued
            /\ glueOffsetSec' = IF ShouldCapture(~isGlued) THEN CaptureOffset
                                ELSE glueOffsetSec
  /\ ev' = Ev("toggleGlue", IF glueOffsetSec' = glueOffsetSec THEN 0
                            ELSE IF glueOffsetSec = 0 THEN 1 ELSE 2)

\* ------------------------------------------------- per-track transport
handleBgPlayPause ==
  /\ bgSrc # "none"                \* onClick: bgSrc && ..., disabled={!bgSrc}
  /\ ev' = Ev("bgPlayPause", 0)
  /\ IF isRecording
       THEN UNCHANGED <<mediaVars, isPlaying, glueVars, audioVars, recVars>>
       ELSE /\ ensureAudioContext
            /\ ensureMiniConnected
            /\ bgPaused' = ~bgPaused
            /\ isPlaying' = bgPaused
            /\ UNCHANGED <<bgSrc, muSrc, bgDur, muDur, bgTime, muTime, muPaused,
                           pendingTU, glueVars, recVars>>

handleBgStop_IgnoresRecording ==
  /\ bgSrc # "none"
  /\ ev' = Ev("bgStop", 0)
  /\ bgPaused' = TRUE
  /\ bgTime' = 0
  /\ pendingTU' = pendingTU \cup Seeked("bg", bgDur)
  /\ isPlaying' = FALSE
  /\ UNCHANGED <<bgSrc, muSrc, bgDur, muDur, muTime, muPaused,
                 glueVars, audioVars, recVars>>

handleBgStop ==
  /\ bgSrc # "none"
  /\ ev' = Ev("bgStop", 0)
  /\ IF isRecording
       THEN UNCHANGED <<mediaVars, isPlaying, glueVars, audioVars, recVars>>
       ELSE /\ bgPaused' = TRUE
            /\ bgTime' = 0
            /\ pendingTU' = pendingTU \cup Seeked("bg", bgDur)
            /\ isPlaying' = FALSE
            /\ UNCHANGED <<bgSrc, muSrc, bgDur, muDur, muTime, muPaused,
                           glueVars, audioVars, recVars>>

handleMuPlayPause ==
  /\ MuExists                      \* disabled={!muSrc}
  /\ ev' = Ev("muPlayPause", 0)
  /\ IF isRecording
       THEN UNCHANGED <<mediaVars, isPlaying, glueVars, audioVars, recVars>>
       ELSE /\ ensureAudioContext
            /\ ensureMiniConnected
            /\ muPaused' = ~muPaused
            /\ isPlaying' = muPaused
            /\ UNCHANGED <<bgSrc, muSrc, bgDur, muDur, bgTime, muTime, bgPaused,
                           pendingTU, glueVars, recVars>>

handleMuStop ==
  /\ MuExists
  /\ ev' = Ev("muStop", 0)
  /\ IF isRecording
       THEN UNCHANGED <<mediaVars, isPlaying, glueVars, audioVars, recVars>>
       ELSE /\ muPaused' = TRUE
            /\ muTime' = 0
            /\ pendingTU' = pendingTU \cup Seeked("mu", muDur)
            /\ UNCHANGED <<bgSrc, muSrc, bgDur, muDur, bgTime, bgPaused, isPlaying,
                           glueVars, audioVars, recVars>>

\* ------------------------------------------------------------- loaders
\* A new src attribute runs the element's load algorithm: position 0, duration
\* unknown, the element's queued events dropped, and paused set unless the
\* element never had a resource.  The SMALL element is mounted fresh (paused)
\* when muSrc was null.
handleUploadNature ==
  /\ bgSrc' = "file"
  /\ bgDur' = 0
  /\ bgTime' = 0
  /\ bgPaused' = IF bgSrc = "none" THEN bgPaused ELSE TRUE
  /\ pendingTU' = pendingTU \ {"bg"}
  /\ isPlaying' = FALSE
  /\ isGlued' = FALSE
  /\ ev' = EvFull("uploadNature", 0, <<>>, IF bgSrc = "file" THEN {"bg"} ELSE {})
  /\ UNCHANGED <<muSrc, muDur, muTime, muPaused, glueOffsetSec, prevBgTime,
                 prevMuTime, glueSyncGuard, audioVars, recCore, saveVars,
                 urlVars>>

handleUploadMusic ==
  /\ muSrc' = "file"
  /\ muDur' = 0
  /\ muTime' = 0
  /\ muPaused' = TRUE
  /\ pendingTU' = pendingTU \ {"mu"}
  /\ isPlaying' = FALSE
  /\ isGlued' = FALSE
  /\ ev' = EvFull("uploadMusic", 0, <<>>, IF muSrc = "file" THEN {"mu"} ELSE {})
  /\ muVolume' = (IF MuExists THEN muVolume ELSE Full)
  /\ UNCHANGED <<bgSrc, bgDur, bgTime, bgPaused, glueOffsetSec, prevBgTime,
                 prevMuTime, glueSyncGuard, audioCtx, muConnected, faderVars,
                 bgVolume, bgGain, muGain, masterGain, ctxCount, muConnects, bgEl,
                 recCore, saveVars, urlVars>>

\* The three presets set both sources.  `same` says that the preset applied is
\* the one already loaded: an element whose src string does not change is not
\* reloaded.  Two sources that are both "preset" come from one preset.
applyPreset(same) ==
  LET bgKeep == same /\ bgSrc = "preset"
      muKeep == same /\ muSrc = "preset"
  IN /\ isGlued' = FALSE
     /\ bgSrc' = "preset"
     /\ muSrc' = "preset"
     /\ bgDur' = IF bgKeep THEN bgDur ELSE 0
     /\ bgTime' = IF bgKeep THEN bgTime ELSE 0
     /\ bgPaused' = IF bgKeep \/ bgSrc = "none" THEN bgPaused ELSE TRUE
     /\ muDur' = IF muKeep THEN muDur ELSE 0
     /\ muTime' = IF muKeep THEN muTime ELSE 0
     /\ muPaused' = IF muKeep THEN muPaused ELSE TRUE
     /\ pendingTU' = pendingTU \ ((IF bgKeep THEN {} ELSE {"bg"}) \cup
                                  (IF muKeep THEN {} ELSE {"mu"}))
     /\ isPlaying' = FALSE
     /\ ev' = EvFull("applyPreset", 0, <<>>,
                     (IF bgKeep \/ bgSrc # "file" THEN {} ELSE {"bg"}) \cup
                     (IF muKeep \/ muSrc # "file" THEN {} ELSE {"mu"}))
     /\ muVolume' = (IF MuExists THEN muVolume ELSE Full)
     /\ UNCHANGED <<glueOffsetSec, prevBgTime, prevMuTime, glueSyncGuard,
                    audioCtx, muConnected, faderVars, bgVolume, bgGain, muGain,
                    masterGain, ctxCount, muConnects, bgEl, recCore, saveVars,
                    urlVars>>

\* ---------------------------------------------------- media environment
\* The browser reports the metadata of a newly set source: duration and frame
\* dimensions become known together.
bgLoadedMetadata(d) ==
  /\ bgSrc # "none" /\ bgDur = 0
  /\ bgDur' = d
  /\ ev' = NoEv
  /\ UNCHANGED <<bgSrc, muSrc, muDur, bgTime, muTime, bgPaused, muPaused, pendingTU,
                 isPlaying, glueVars, audioVars, recVars>>

muLoadedMetadata(d) ==
  /\ MuExists /\ muDur = 0
  /\ muDur' = d
  /\ ev' = NoEv
  /\ UNCHANGED <<bgSrc, muSrc, bgDur, bgTime, muTime, bgPaused, muPaused, pendingTU,
                 isPlaying, glueVars, audioVars, recVars>>

\* Both <video> elements carry the loop attribute: a playing element that
\* reaches its end restarts at 0.
Advance(t, dur) == IF t + 1 >= dur THEN 0 ELSE t + 1

BgAdvancing == ~bgPaused /\ bgDur > 0
MuAdvancing == MuExists /\ ~muPaused /\ muDur > 0

\* Half a second of playback: every playing element advances and emits a
\* timeupdate; the events of the previous half second have been delivered.
PlayTick ==
  /\ pendingTU = {}
  /\ BgAdvancing \/ MuAdvancing
  /\ bgTime' = IF BgAdvancing THEN Advance(bgTime, bgDur) ELSE bgTime
  /\ muTime' = IF MuAdvancing THEN Advance(muTime, muDur) ELSE muTime
  /\ pendingTU' = (IF BgAdvancing THEN {"bg"} ELSE {}) \cup
                  (IF MuAdvancing THEN {"mu"} ELSE {})
  /\ ev' = NoEv
  /\ UNCHANGED <<bgSrc, muSrc, bgDur, muDur, bgPaused, muPaused, isPlaying,
                 glueVars, audioVars, recVars>>

\* ------------------------------------------------------------ recording
\* An encoder id is free when no encoder holds it and no render loop started
\* for it is still scheduled.
FreeIds == {r \in RecIds : recorders[r] = "none" /\ r \notin liveLoops}
NewRec == CHOOSE r \in FreeIds : \A q \in FreeIds : r <= q

\* startRecording after its awaits: new MediaRecorder, recorderRef, draw(),
\* rec.start(), setIsRecording(true), setRecTime(0), and the two stop triggers
\* (each cleared first when its ref is set).
BeginSession(r, vols) ==
  /\ qrPayloadRef' = Payload(r, vols)
  /\ startPayload' = [startPayload EXCEPT ![r] = Payload(r, vols)]
  /\ recordAudioDestRef' = r
  /\ taps' = taps \cup {r}
  /\ recordedChunks' = <<>>
  /\ recorderRef' = r
  /\ recorders' = [recorders EXCEPT ![r] = "recording"]
  /\ liveLoops' = liveLoops \cup {r}
  /\ drawRafRef' = r
  /\ isRecording' = TRUE
  /\ recTime' = 0
  /\ recIntervalArmed' = TRUE
  /\ recTimerArmed' = TRUE
  /\ recElapsed' = 0
  /\ intervalDue' = FALSE

\* waitForVideoReady resolves without suspending when BIG has frame dimensions
\* (known together with its duration); otherwise startRecording stays suspended
\* until a readiness event or the 2.5 s timeout (StartRecResume).
VideoReadyNow == bgDur > 0

StartReady_Always(ctx, master) == TRUE

\* if (!ctx || !master || !bgVideo) return
StartReady(ctx, master) == ctx /\ master # NULL /\ bgEl

\* startRecording past its guard: the session begins at once or the call
\* stays suspended in waitForVideoReady.
BeginOrSuspend ==
  /\ UNCHANGED <<saveVars, urlVars>>
  /\ IF VideoReadyNow
       THEN /\ BeginSession(NewRec, <<bgVol, muVol, masterVol>>)
            /\ UNCHANGED <<pendingStarts, startClosures>>
       ELSE /\ pendingStarts' = pendingStarts + 1
            /\ startClosures' = Append(startClosures, <<bgVol, muVol, masterVol>>)
            /\ UNCHANGED <<isRecording, recTime, recorderRef, recorders,
                           timerVars, loopVars, artefactVars>>

\* A call of startRecording by itself.
\* ev.arg: 0 it returned at its guard, 1 it went on.
startRecording ==
  /\ Cardinality(FreeIds) > pendingStarts
  /\ IF StartReady(audioCtx, masterGain)
       THEN BeginOrSuspend /\ ev' = Ev("startRecording", 1)
       ELSE /\ ev' = Ev("startRecording", 0)
            /\ UNCHANGED recVars
  /\ UNCHANGED <<mediaVars, isPlaying, glueVars, audioVars>>

handleGlobalRec ==
  \/ /\ isRecording
     /\ StopOnly
     /\ ev' = Ev("stopUser", 0)
  \/ /\ ~isRecording
     /\ Cardinality(FreeIds) > pendingStarts
     /\ ensureAudioContext
     /\ ensureMiniConnected
     /\ bgPaused' = FALSE
     /\ muPaused' = IF MuExists THEN FALSE ELSE muPaused
     /\ isPlaying' = TRUE
     /\ ev' = NoEv
     /\ UNCHANGED <<bgSrc, muSrc, bgDur, muDur, bgTime, muTime, pendingTU, glueVars>>
     /\ IF StartReady(audioCtx', masterGain')
          THEN BeginOrSuspend
          ELSE UNCHANGED recVars

StartRecResume ==
  /\ pendingStarts > 0
  /\ pendingStarts' = pendingStarts - 1
  /\ startClosures' = Tail(startClosures)
  /\ BeginSession(NewRec, Head(startClosures))
  /\ ev' = NoEv
  /\ UNCHANGED <<mediaVars, isPlaying, glueVars, audioVars, saveVars, urlVars>>

\* rec.ondataavailable: if (e.data && e.data.size > 0) push
Received(chunks, r, size) == IF size > 0 THEN Append(chunks, r) ELSE chunks

\* The task queued by r.stop(): the encoder's only dataavailable event (the
\* recording was started without a timeslice), of a chunk that may be empty,
\* and then rec.onstop.
RecOnStop(r) ==
  /\ recorders[r] = "stopping"
  /\ \E size \in 0..1 :
       /\ pendingRecordedBlob' = Received(recordedChunks, r, size)
       /\ ev' = EvFull("onstop", r, Received(<<>>, r, size),
                       IF pendingRecordedUrl THEN {"rec"} ELSE {})
  /\ pendingRecordedUrl' = TRUE
  /\ pendingQrPayload' = qrPayloadRef
  /\ showSavePanel' = TRUE
  /\ recordedChunks' = <<>>
  /\ taps' = taps \ {recordAudioDestRef}
  /\ recordAudioDestRef' = 0
  /\ liveLoops' = liveLoops \ {drawRafRef}
  /\ drawRafRef' = 0
  /\ isRecording' = FALSE
  /\ recTime' = 0
  /\ recorderRef' = 0
  /\ recorders' = [recorders EXCEPT ![r] = "none"]
  /\ CancelStopTriggers
  /\ UNCHANGED <<mediaVars, isPlaying, glueVars, audioVars, pendingStarts,
                 startClosures, qrPayloadRef, startPayload, urlVars>>

\* ------------------------------------------------------------ save panel
saveFileName_NoId(payload) == <<"goodwills_ritual_", -1, ".webm">>

\* `goodwills_ritual_${id}.webm` with id = pendingQrPayload?.id || `gw-${Date.now()}`;
\* -1 stands for the fallback, an id no payload has.
saveFileName(payload) ==
  <<"goodwills_ritual_", IF payload.id # 0 THEN payload.id ELSE -1, ".webm">>

handleSaveConfirm ==
  /\ showSavePanel
  /\ showSavePanel' = FALSE
  /\ IF ~pendingRecordedUrl
       THEN UNCHANGED <<pendingRecordedBlob, pendingRecordedUrl, pendingQrPayload>>
       ELSE /\ pendingRecordedBlob' = <<>>
            /\ pendingRecordedUrl' = FALSE
            /\ pendingQrPayload' = NoPayload
  /\ ev' = IF pendingRecordedUrl
             THEN EvOut("saveConfirm", 0, <<>>, {"rec"},
                        [NoOut EXCEPT !.file = saveFileName(pendingQrPayload),
                                      !.content = pendingRecordedBlob])
             ELSE Ev("saveConfirm", 0)
  /\ UNCHANGED <<mediaVars, isPlaying, glueVars, audioVars, recCore, urlVars>>

handleSaveCancel ==
  /\ showSavePanel
  /\ showSavePanel' = FALSE
  /\ pendingRecordedBlob' = <<>>
  /\ pendingRecordedUrl' = FALSE
  /\ pendingQrPayload' = NoPayload
  /\ ev' = [Ev("saveCancel", 0) EXCEPT
              !.out.revoked = IF pendingRecordedUrl THEN {"rec"} ELSE {}]
  /\ UNCHANGED <<mediaVars, isPlaying, glueVars, audioVars, recCore, urlVars>>

\* ------------------------------------------------------------ mint flow
MaxScans == 2

\* handleMintFilePicked up to its await: the scan of the picked clip starts.
MintPick(clip) ==
  /\ Len(mintScans) < MaxScans
  /\ mintScans' = Append(mintScans, clip)
  /\ ev' = Ev("mintPick", 0)
  /\ UNCHANGED <<mediaVars, isPlaying, glueVars, audioVars, recCore, saveVars,
                 selectedPackVideoUrl, mintFile, mintPreviewUrl, mintQrPayload,
                 mintQrText, showMintModal, packs>>

\* handleMintFilePicked from the end of scan number i: the scan threw (the
\* handler has no catch), found nothing (alert, nothing set) or found a
\* payload (preview URL replaced, dialog opened with the clip, the text and
\* the payload).  ev.arg: 0 found, 1 not found, 2 threw.
MintScanDone(i) ==
  LET clip == mintScans[i]
      threw == ScanThrows(clip)
      res == ScanLoaded(clip)
      rest == SubSeq(mintScans, 1, i - 1) \o SubSeq(mintScans, i + 1, Len(mintScans))
  IN /\ mintScans' = rest
     /\ IF threw # ""
          THEN /\ ev' = EvOut("mintScanDone", 2, <<>>, {},
                              [NoOut EXCEPT !.threw = threw, !.revoked = {"scan"}])
               /\ UNCHANGED <<mintFile, mintPreviewUrl, mintQrPayload, mintQrText,
                              showMintModal>>
          ELSE IF ~res.ok
            THEN /\ ev' = EvOut("mintScanDone", 1, <<>>, {},
                                [NoOut EXCEPT !.alert = "not a GOODWILLS file",
                                              !.revoked = {"scan"}])
                 /\ UNCHANGED <<mintFile, mintPreviewUrl, mintQrPayload, mintQrText,
                                showMintModal>>
            ELSE /\ mintFile' = clip
                 /\ mintPreviewUrl' = TRUE
                 /\ showMintModal' = TRUE
                 /\ mintQrText' = res.payloadText
                 /\ mintQrPayload' = res.payload
                 /\ ev' = EvOut("mintScanDone", 0, <<>>, {},
                                [NoOut EXCEPT !.revoked =
                                   {"scan"} \cup IF mintPreviewUrl THEN {"mint"} ELSE {}])
     /\ UNCHANGED <<mediaVars, isPlaying, glueVars, audioVars, recCore, saveVars,
                    selectedPackVideoUrl, packs>>

\* closeMintModal's writes.
MintCleared ==
  /\ showMintModal' = FALSE
  /\ mintFile' = NoFile
  /\ mintPreviewUrl' = FALSE
  /\ mintQrPayload' = JsNull
  /\ mintQrText' = NoText

closeMintModal ==
  /\ showMintModal
  /\ MintCleared
  /\ ev' = [Ev("closeMintModal", 0) EXCEPT
              !.out.revoked = IF mintPreviewUrl THEN {"mint"} ELSE {}]
  /\ UNCHANGED <<mediaVars, isPlaying, glueVars, audioVars, recCore, saveVars,
                 selectedPackVideoUrl, mintScans, packs>>

Nullish_Falsy(x, dflt) == IF Truthy(x) THEN x ELSE dflt

\* x ?? dflt
Nullish(x, dflt) == IF x.t \in {"undefined", "null"} THEN dflt ELSE x

\* sha256OfBlob: the digest is a function of the file's bytes.
Sha(file) == <<"sha256", file.name>>

\* The metadata document (mood, intention and durations left out); sha is
\* the digest, or "" when sha256OfBlob threw.  The fallbacks of id and
\* createdAt are `gw-${Date.now()}` and the time of the call.
MintDoc(sha) ==
  LET PayloadId == IF mintQrPayload.t = "null" THEN JsUndefined ELSE mintQrPayload.id
      PayloadDate == IF mintQrPayload.t = "null" THEN JsUndefined
                     ELSE mintQrPayload.createdAt
  IN [signature |-> "GOODWILLS.MINT",
      id |-> Nullish(PayloadId, JsStr(<<"g", "w", "-", "now">>)),
      createdAt |-> Nullish(PayloadDate, JsStr(<<"now">>)),
      volumes |-> IF mintQrPayload.t = "null" THEN NoVols ELSE mintQrPayload.volumes,
      qr |-> mintQrText,
      webmFileName |-> mintFile.name,
      sha256 |-> sha]

MintProceeds_NeedsHash(shaOk, zipOk) == shaOk /\ zipOk

\* A failure of sha256OfBlob is caught and the mint goes on; a failure of the
\* zip build is caught after it and ends the mint.
MintProceeds(shaOk, zipOk) == zipOk

\* handleMintConfirm with its awaits (digest, zip) taken as one step.
\* ev.arg: 0 digest and zip built, 1 the digest failed and the zip was
\* built, 2 the zip build failed, 3 no file selected.
handleMintConfirm(shaOk, zipOk) ==
  /\ showMintModal
  /\ IF mintFile = NoFile
       THEN /\ ev' = [Ev("mintConfirm", 3) EXCEPT !.out.alert = "Select a WebM file first."]
            /\ UNCHANGED <<mintFile, mintPreviewUrl, mintQrPayload, mintQrText,
                           showMintModal>>
       ELSE LET doc == MintDoc(IF shaOk THEN Sha(mintFile) ELSE "")
                code == IF ~zipOk THEN 2 ELSE IF shaOk THEN 0 ELSE 1
            IN IF MintProceeds(shaOk, zipOk)
                 THEN /\ MintCleared
                      /\ ev' = EvOut("mintConfirm", code, <<>>, {},
                                 [NoOut EXCEPT
                                    !.alert = "Mint pack created",
                                    !.file = doc.id.v \o <<".mint">>,
                                    !.content = [entries |-> {"mint.json", "video.webm"},
                                                 doc |-> doc, video |-> mintFile],
                                    !.revoked = {"zip"} \cup
                                       IF mintPreviewUrl THEN {"mint"} ELSE {}])
                 ELSE /\ ev' = [Ev("mintConfirm", code) EXCEPT !.out.alert = "Mint failed"]
                      /\ UNCHANGED <<mintFile, mintPreviewUrl, mintQrPayload, mintQrText,
                                     showMintModal>>
  /\ UNCHANGED <<mediaVars, isPlaying, glueVars, audioVars, recCore, saveVars,
                 selectedPackVideoUrl, mintScans, packs>>

\* ----------------------------------------------------------- mint packs
\* openPack(p): hasVideo says that p carries a video blob.
readMintPackFile_VideoSuffices(f) ==
  [threw |-> IF ~f.zip THEN "not a zip file"
             ELSE IF f.meta.syntax = "none" /\ ~f.video THEN "mint.json not found"
             ELSE IF f.meta.syntax = "garbage" THEN "SyntaxError"
             ELSE "",
   pack |-> [fileName |-> f.name, data |-> f.meta.val, videoBlob |-> f.video]]

\* readMintPackFile of an archive f: what it throws ("" when it returns) and
\* the pack it returns; videoBlob is FALSE for null.
readMintPackFile(f) ==
  [threw |-> IF ~f.zip THEN "not a zip file"
             ELSE IF f.meta.syntax = "none" THEN "mint.json not found"
             ELSE IF f.meta.syntax = "garbage" THEN "SyntaxError"
             ELSE "",
   pack |-> [fileName |-> f.name, data |-> f.meta.val, videoBlob |-> f.video]]

\* String.prototype.localeCompare by its sign, over the characters of the
\* model: the collation puts digits before letters and orders letters by the
\* alphabet before their case.
localeCompare(x, y) ==
  LET W(c) == CASE c = "1" -> 1 [] c = "2" -> 2 [] c = "a" -> 3 [] c = "B" -> 4
                [] OTHER -> 5
      Less(u, v) ==
        \E k \in 1..Len(v) :
          /\ k - 1 <= Len(u)
          /\ \A j \in 1..(k - 1) : W(u[j]) = W(v[j])
          /\ k > Len(u) \/ W(u[k]) < W(v[k])
  IN IF Less(x, y) THEN -1 ELSE IF Less(y, x) THEN 1 ELSE 0

\* The sort key of a pack, data.createdAt || "", and what reading it throws:
\* a property read of null, or localeCompare missing on a truthy non-string.
PackKey(p) ==
  LET c == p.data.createdAt
  IN [threw |-> IF p.data.t = "null" \/ (Truthy(c) /\ c.t # "string")
                  THEN "TypeError" ELSE "",
      key |-> IF Truthy(c) THEN c.v ELSE <<>>]

ComparePacks_Ascending(a, b) == localeCompare(PackKey(a).key, PackKey(b).key)

\* The comparator handed to sort.
ComparePacks(a, b) == localeCompare(PackKey(b).key, PackKey(a).key)

\* Array.prototype.sort, which is stable, as an insertion sort.
RECURSIVE SortPacks(_)
SortPacks(s) ==
  IF s = <<>> THEN <<>>
  ELSE LET init == SortPacks(SubSeq(s, 1, Len(s) - 1))
           q == s[Len(s)]
           k == Cardinality({i \in 1..Len(init) : ComparePacks(init[i], q) <= 0})
       IN SubSeq(init, 1, k) \o <<q>> \o SubSeq(init, k + 1, Len(init))

\* handleRitualMintFilesPicked with a batch of files: each read is tried and
\* a failure logged; sort compares every pack of a list of two or more, and
\* what the comparator throws leaves the handler before setPacks.
\* ev.out.res is <<the batch, the warnings logged>>.
handleRitualMintFilesPicked(files) ==
  LET reads == [i \in 1..Len(files) |-> readMintPackFile(files[i])]
      loaded == SelectSeq([i \in 1..Len(files) |-> reads[i]], LAMBDA r : r.threw = "")
      warned == SelectSeq([i \in 1..Len(files) |-> reads[i]], LAMBDA r : r.threw # "")
      log == [i \in 1..Len(warned) |-> <<warned[i].pack.fileName, warned[i].threw>>]
      list == [i \in 1..Len(loaded) |-> loaded[i].pack]
      sortThrows == /\ Len(list) >= 2
                    /\ \E i \in 1..Len(list) : PackKey(list[i]).threw # ""
  IN /\ Len(files) > 0
     /\ IF sortThrows
          THEN /\ ev' = EvOut("importPacks", 2, <<>>, {},
                              [NoOut EXCEPT !.threw = "TypeError", !.res = <<files, log>>])
               /\ UNCHANGED packs
          ELSE /\ packs' = SortPacks(list)
               /\ ev' = EvOut("importPacks", 0, <<>>, {},
                              [NoOut EXCEPT !.res = <<files, log>>])
     /\ UNCHANGED <<mediaVars, isPlaying, glueVars, audioVars, recCore, saveVars,
                    selectedPackVideoUrl, mintVars>>

openPack_KeepsUrl(p) ==
  /\ selectedPackVideoUrl' = (p.videoBlob \/ selectedPackVideoUrl)
  /\ ev' = [Ev("openPack", 0) EXCEPT !.out.res = <<p>>]
  /\ UNCHANGED <<mediaVars, isPlaying, glueVars, audioVars, recCore, saveVars,
                 mintVars, packs>>

\* A pack with a video blob and none, for the flows that do not load packs.
AnyPack(hasVideo) == [fileName |-> "p", data |-> JsNull, videoBlob |-> hasVideo]

openPack(p) ==
  /\ selectedPackVideoUrl' = p.videoBlob
  /\ ev' = [Ev("openPack", 0) EXCEPT !.out.res = <<p>>]
  /\ UNCHANGED <<mediaVars, isPlaying, glueVars, audioVars, recCore, saveVars,
                 mintVars, packs>>

closeMyRituals ==
  /\ selectedPackVideoUrl' = FALSE
  /\ ev' = Ev("closeMyRituals", 0)
  /\ UNCHANGED <<mediaVars, isPlaying, glueVars, audioVars, recCore, saveVars,
                 mintVars, packs>>

\* One display refresh of render loop l: draw() stores its next frame handle.
RenderFrame(l) ==
  /\ l \in liveLoops
  /\ drawRafRef' = l
  /\ ev' = NoEv
  /\ UNCHANGED <<mediaVars, isPlaying, glueVars, audioVars, isRecording, recTime,
                 recorderRef, recorders, timerVars, liveLoops, pendingStarts,
                 startClosures, artefactVars, saveVars, urlVars>>

\* ---------------------------------------------------------- stop triggers
\* A second of wall-clock time with a timer armed.  A due callback runs before
\* more time passes.
ClockTick ==
  /\ recIntervalArmed \/ recTimerArmed
  /\ ~(recIntervalArmed /\ intervalDue)
  /\ recElapsed < RECORD_LIMIT_SEC
  /\ recElapsed' = recElapsed + 1
  /\ intervalDue' = recIntervalArmed
  /\ ev' = NoEv
  /\ UNCHANGED <<mediaVars, isPlaying, glueVars, audioVars, isRecording, recTime,
                 recorderRef, recorders, recIntervalArmed, recTimerArmed, loopVars,
                 pendingStarts, startClosures, artefactVars, saveVars, urlVars>>

TickStops_OffByOne(t) == t + 1 > RECORD_LIMIT_SEC

\* if (t + 1 >= RECORD_LIMIT_SEC)
TickStops(t) == t + 1 >= RECORD_LIMIT_SEC

\* setInterval callback: setRecTime(t => t + 1 >= LIMIT ? (stopRecording(), 0) : t + 1)
IntervalFire ==
  /\ recIntervalArmed /\ intervalDue
  /\ IF TickStops(recTime)
       THEN StopAndResetTime /\ ev' = Ev("stopTick", 0)
       ELSE /\ recTime' = recTime + 1
            /\ intervalDue' = FALSE
            /\ ev' = Ev("tick", 0)
            /\ UNCHANGED <<mediaVars, isPlaying, glueVars, audioVars, isRecording,
                           recorderRef, recorders, recIntervalArmed, recTimerArmed,
                           recElapsed, loopVars, pendingStarts, startClosures,
                           artefactVars, saveVars, urlVars>>

\* setTimeout(() => stopRecording(), RECORD_LIMIT_SEC * 1000)
DeadlineFire ==
  /\ recTimerArmed /\ recElapsed >= RECORD_LIMIT_SEC
  /\ StopOnly
  /\ ev' = Ev("stopDeadline", IF intervalDue THEN 1 ELSE 0)

\* ------------------------------------------------------- specifications
\* No media event is waiting for delivery.
Quiet == pendingTU = {}

\* The save panel is an overlay over the whole studio (a click on it outside
\* the panel's window is handleSaveCancel), and so is the mint dialog: while
\* one is shown the controls under it receive no click.
CanClick == Quiet /\ ~showSavePanel /\ ~showMintModal

Next ==
  \/ CanClick /\ handleGlobalPlayPause
  \/ CanClick /\ handleGlobalStop
  \/ CanClick /\ handleGlobalMint
  \/ CanClick /\ handleGlobalRec
  \/ Quiet /\ StartRecResume
  \/ Quiet /\ \E r \in RecIds : RecOnStop(r)
  \/ Quiet /\ \E l \in RecIds : RenderFrame(l)
  \/ Quiet /\ ClockTick
  \/ Quiet /\ IntervalFire
  \/ Quiet /\ DeadlineFire
  \/ handleBgTimeUpdate
  \/ handleMuTimeUpdate
  \/ CanClick /\ \E k \in 0..MaxDur : k <= bgDur /\ handleBgTimelineChange(k)
  \/ CanClick /\ \E k \in 0..MaxDur : k <= muDur /\ handleMuTimelineChange(k)
  \/ CanClick /\ toggleGlue
  \/ CanClick /\ handleBgPlayPause
  \/ CanClick /\ handleBgStop
  \/ CanClick /\ handleMuPlayPause
  \/ CanClick /\ handleMuStop
  \/ CanClick /\ handleUploadNature
  \/ CanClick /\ handleUploadMusic
  \/ CanClick /\ \E same \in BOOLEAN : applyPreset(same)
  \/ Quiet /\ \E d \in Durations : bgLoadedMetadata(d)
  \/ Quiet /\ \E d \in Durations : muLoadedMetadata(d)
  \/ CanClick /\ \E w \in {"bg", "mu", "master"}, v \in Faders : SetFader(w, v)
  \/ Quiet /\ handleSaveConfirm
  \/ Quiet /\ handleSaveCancel
  \/ CanClick /\ \E hasVideo \in BOOLEAN : openPack(AnyPack(hasVideo))
  \/ CanClick /\ closeMyRituals
  \/ PlayTick


\* The whole component from its construction.
Spec == Init /\ [][Next]_vars

\* The recording session: the transport buttons that start and stop a take,
\* the encoder, the render loop and the two timers, with BIG loaded or not.
\* These actions read no variable that the glue, scrub and playback actions
\* write.
NextRec ==
  \/ CanClick /\ handleGlobalPlayPause
  \/ CanClick /\ handleGlobalStop
  \/ CanClick /\ handleGlobalMint
  \/ CanClick /\ handleGlobalRec
  \/ Quiet /\ StartRecResume
  \/ Quiet /\ \E r \in RecIds : RecOnStop(r)
  \/ Quiet /\ \E l \in RecIds : RenderFrame(l)
  \/ Quiet /\ ClockTick
  \/ Quiet /\ IntervalFire
  \/ Quiet /\ DeadlineFire
  \/ handleBgTimeUpdate
  \/ CanClick /\ handleUploadNature
  \/ Quiet /\ \E d \in Durations : bgLoadedMetadata(d)
  \/ Quiet /\ handleSaveConfirm
  \/ Quiet /\ handleSaveCancel


SpecRec == Init /\ [][NextRec]_vars

\* The timers, the encoder's stop event and the resumption of a suspended
\* start are callbacks of the host's event loop: each runs once it is due.
FairSpecRec ==
  /\ SpecRec
  /\ WF_vars(Quiet /\ ClockTick)
  /\ WF_vars(Quiet /\ IntervalFire)
  /\ WF_vars(Quiet /\ DeadlineFire)
  /\ WF_vars(Quiet /\ StartRecResume)
  /\ WF_vars(Quiet /\ \E r \in RecIds : RecOnStop(r))
  /\ WF_vars(handleBgTimeUpdate)

\* The state after the user has loaded BIG, with or without SMALL, and the
\* audio graph has been built by a first playback.
InitGlue ==
  /\ bgSrc = "file" /\ bgDur = MaxDur
  /\ \/ muSrc = "none" /\ muDur = 0
     \/ muSrc = "file" /\ muDur = MaxDur - 1
  /\ bgTime = 0 /\ muTime = 0
  /\ bgPaused = TRUE /\ muPaused = TRUE
  /\ pendingTU = {}
  /\ isPlaying = FALSE
  /\ isGlued = FALSE
  /\ glueOffsetSec = 0
  /\ prevBgTime = NULL /\ prevMuTime = NULL
  /\ glueSyncGuard = FALSE
  /\ AudioBuilt
  /\ isRecording = FALSE
  /\ recTime = 0
  /\ recorderRef = 0
  /\ recorders = [r \in RecIds |-> "none"]
  /\ recIntervalArmed = FALSE /\ recTimerArmed = FALSE
  /\ recElapsed = 0 /\ intervalDue = FALSE
  /\ drawRafRef = 0 /\ liveLoops = {}
  /\ pendingStarts = 0
  /\ ArtefactsFresh
  /\ ev = NoEv

\* Glue, scrubs, transport and playback over loaded sources, with takes that
\* the user ends before the first tick of the recording clock (a stop by a
\* timer has the effect of a stop by the user on every variable but recTime).
NextGlue ==
  \/ CanClick /\ handleGlobalPlayPause
  \/ CanClick /\ handleGlobalStop
  \/ CanClick /\ handleGlobalMint
  \/ CanClick /\ handleGlobalRec
  \/ Quiet /\ \E r \in RecIds : RecOnStop(r)
  \/ handleBgTimeUpdate
  \/ handleMuTimeUpdate
  \/ CanClick /\ \E k \in 0..MaxDur : k <= bgDur /\ handleBgTimelineChange(k)
  \/ CanClick /\ \E k \in 0..MaxDur : k <= muDur /\ handleMuTimelineChange(k)
  \/ CanClick /\ toggleGlue
  \/ CanClick /\ handleBgPlayPause
  \/ CanClick /\ handleBgStop
  \/ CanClick /\ handleMuPlayPause
  \/ CanClick /\ handleMuStop
  \/ PlayTick
  \/ Quiet /\ handleSaveConfirm
  \/ Quiet /\ handleSaveCancel


SpecGlue == InitGlue /\ [][NextGlue]_vars

\* Takes over loaded sources with the faders moved before and during them:
\* Rec and Stop, the encoder's stop event, the save panel's two decisions.
NextSession ==
  \/ CanClick /\ handleGlobalRec
  \/ CanClick /\ handleGlobalStop
  \/ Quiet /\ \E r \in RecIds : RecOnStop(r)
  \/ CanClick /\ \E w \in {"bg", "master"}, v \in Faders : SetFader(w, v)
  \/ Quiet /\ handleSaveConfirm
  \/ Quiet /\ handleSaveCancel
  \/ handleBgTimeUpdate
  \/ handleMuTimeUpdate

SpecSession == InitGlue /\ [][NextSession]_vars

\* The handlers that create, replace or release an object URL: loads and
\* presets, takes and the save panel's decisions, packs opened and closed.
NextUrl ==
  \/ CanClick /\ handleUploadNature
  \/ CanClick /\ handleUploadMusic
  \/ CanClick /\ \E same \in BOOLEAN : applyPreset(same)
  \/ Quiet /\ \E d \in Durations : bgLoadedMetadata(d)
  \/ Quiet /\ \E d \in Durations : muLoadedMetadata(d)
  \/ CanClick /\ handleGlobalRec
  \/ CanClick /\ handleGlobalStop
  \/ Quiet /\ StartRecResume
  \/ Quiet /\ \E r \in RecIds : RecOnStop(r)
  \/ Quiet /\ handleSaveConfirm
  \/ Quiet /\ handleSaveCancel
  \/ CanClick /\ \E hasVideo \in BOOLEAN : openPack(AnyPack(hasVideo))
  \/ CanClick /\ closeMyRituals
  \/ handleBgTimeUpdate
  \/ handleMuTimeUpdate

SpecUrl == Init /\ [][NextUrl]_vars

\* A take over loaded sources from Rec to the save panel, stopped by the user,
\* by the tick or by the deadline: no start is suspended, BIG being ready.
NextTimers ==
  \/ CanClick /\ handleGlobalRec
  \/ CanClick /\ handleGlobalStop
  \/ Quiet /\ \E r \in RecIds : RecOnStop(r)
  \/ Quiet /\ ClockTick
  \/ Quiet /\ IntervalFire
  \/ Quiet /\ DeadlineFire
  \/ Quiet /\ handleSaveConfirm
  \/ Quiet /\ handleSaveCancel
  \/ handleBgTimeUpdate
  \/ handleMuTimeUpdate

SpecTimers == InitGlue /\ [][NextTimers]_vars

\* Sources loaded and replaced from the empty studio, with Glue toggled and
\* the tracks scrubbed in between.
NextLoad ==
  \/ CanClick /\ handleUploadNature
  \/ CanClick /\ handleUploadMusic
  \/ CanClick /\ \E same \in BOOLEAN : applyPreset(same)
  \/ Quiet /\ \E d \in Durations : bgLoadedMetadata(d)
  \/ Quiet /\ \E d \in Durations : muLoadedMetadata(d)
  \/ CanClick /\ toggleGlue
  \/ CanClick /\ \E k \in 0..MaxDur : k <= bgDur /\ handleBgTimelineChange(k)
  \/ CanClick /\ \E k \in 0..MaxDur : k <= muDur /\ handleMuTimelineChange(k)
  \/ handleBgTimeUpdate
  \/ handleMuTimeUpdate

SpecLoad == Init /\ [][NextLoad]_vars

\* The texts a QR decoder can hand to the payload check: text that is not
\* JSON, JSON primitives and arrays, and objects whose id, createdAt and
\* volumes are absent, of a wrong type, or of the expected one.
QrTexts ==
  LET ids == {JsUndefined, JsNum(1), JsStr(<<"g", "w", "-", "1">>), JsStr(GwMarker),
              JsStr(<<"x", "g", "w", "-">>), JsStr(<<"g">>)}
      dates == {JsUndefined, JsNum(1), JsStr(<<>>), JsStr(<<"t">>)}
      nums == {JsNum(0), JsNum(1), JsStr(<<"1">>), JsUndefined}
      prim(t, v) == Vols(t, v, JsUndefined, JsUndefined, JsUndefined)
      vols == {NoVols, prim("null", <<>>), prim("number", <<5>>),
               prim("string", <<"x">>), prim("array", <<>>)} \cup
              {Vols("object", <<>>, b, sm, m) : b \in nums, sm \in nums, m \in nums}
      top(t, v) == Val(t, v, JsUndefined, JsUndefined, NoVols)
      vals == {JsNull, top("number", <<0>>), top("number", <<5>>),
               top("string", <<"g", "w", "-", "1">>), top("array", <<>>)} \cup
              {Val("object", <<>>, i, c, v) : i \in ids, c \in dates, v \in vols}
  IN {Garbage} \cup {JsonText(v) : v \in vals}

\* A call of isGoodwillsQRPayload by itself; ev.out.res is the text and the
\* truthiness of the value returned.
CallIsGoodwillsQRPayload ==
  /\ \E txt \in QrTexts :
       ev' = EvOut("isGoodwillsQRPayload", 0, <<>>, {},
                   [NoOut EXCEPT !.res = <<txt, isGoodwillsQRPayload(txt)>>])
  /\ UNCHANGED <<mediaVars, isPlaying, glueVars, audioVars, recVars>>

NextQr == CallIsGoodwillsQRPayload

SpecQr == Init /\ [][NextQr]_vars

\* Two payload texts that pass the check, and decodes that do not.
GoodText(n, date) ==
  JsonText(Val("object", <<>>, JsStr(<<"g", "w", "-", n>>), JsStr(date),
               Vols("object", <<>>, JsNum(1), JsNum(0), JsNum(2))))
OtherText == GoodText("9", <<"t">>)
JunkTexts ==
  {NoText, Garbage,
   JsonText(Val("object", <<>>, JsStr(<<"x", "g", "w", "-">>), JsStr(<<"t">>),
                Vols("object", <<>>, JsNum(1), JsNum(0), JsNum(2))))}

\* A clip whose frames decode to junk before sample number hit, to good at
\* that sample (in the crop, with another payload in the full frame, or in
\* the full frame alone) and to another payload after it; hit 0: junk only.
Clip(name, dur, hit, where, junk, good) ==
  [name |-> name, loads |-> TRUE, dur |-> dur,
   frames |-> [t \in {ScanTimes[i] : i \in 1..Len(ScanTimes)} |->
     LET i == CHOOSE k \in 1..Len(ScanTimes) : ScanTimes[k] = t
     IN IF hit = 0 \/ i < hit THEN [crop |-> junk, full |-> junk]
        ELSE IF i > hit THEN [crop |-> OtherText, full |-> OtherText]
        ELSE IF where = "crop" THEN [crop |-> good, full |-> OtherText]
        ELSE [crop |-> junk, full |-> good]]]

\* A file whose metadata the <video> element cannot load.
Unplayable == [NoFile EXCEPT !.name = "u"]

Clips ==
  {Unplayable} \cup
  {Clip("c", dur, hit, where, junk, GoodText("1", date)) :
     dur \in {0, 10, 50}, hit \in 0..Len(ScanTimes), where \in {"crop", "full"},
     junk \in JunkTexts, date \in {<<>>, <<"t">>}}

\* A call of scanGoodwillsQrFromFile by itself; ev.out.res is the clip and
\* the value returned.  The object URL of the scan is revoked in the finally.
CallScan ==
  /\ \E clip \in Clips :
       ev' = EvOut("scan", 0, <<>>, {},
                   [NoOut EXCEPT !.threw = ScanThrows(clip),
                                 !.revoked = {"scan"},
                                 !.res = IF clip.loads THEN <<clip, ScanLoaded(clip)>>
                                                       ELSE <<clip>>])
  /\ UNCHANGED <<mediaVars, isPlaying, glueVars, audioVars, recVars>>

NextScan == CallScan

SpecScan == Init /\ [][NextScan]_vars

\* The clips picked for minting: one that does not load, one without a code,
\* one with the payload in the crop of the first sample, one with it in the
\* full frame of the second.
MintClips ==
  {Unplayable,
   Clip("n", 0, 0, "crop", NoText, OtherText),
   Clip("a", 0, 1, "crop", Garbage, GoodText("1", <<>>)),
   Clip("b", 50, 2, "full", NoText, GoodText("2", <<"t">>))}

\* The mint flow: Mint, the pick of a clip, the end of its scan, the dialog's
\* Mint and close.  The picker opened by Mint stays open while scans end.
NextMint ==
  \/ CanClick /\ handleGlobalMint
  \/ Quiet /\ \E clip \in MintClips : MintPick(clip)
  \/ Quiet /\ \E i \in 1..Len(mintScans) : MintScanDone(i)
  \/ Quiet /\ closeMintModal
  \/ Quiet /\ \E shaOk \in BOOLEAN, zipOk \in BOOLEAN : handleMintConfirm(shaOk, zipOk)

SpecMint == Init /\ [][NextMint]_vars

MaxBatch == 3

\* Archives: without mint.json (with a video and without), with a mint.json
\* that is not JSON, that is null, that has no createdAt, and with createdAt
\* "a" and "B".
PackFiles ==
  LET File(name, zip, meta, video) ==
        [name |-> name, zip |-> zip, meta |-> meta, video |-> video]
      Meta(date) == JsonText(Val("object", <<>>, JsStr(<<"g", "w", "-", "1">>), date, NoVols))
  IN {File("m0", TRUE, NoText, FALSE),
      File("m1", TRUE, NoText, TRUE),
      File("g", TRUE, Garbage, TRUE),
      File("n", TRUE, JsonText(JsNull), TRUE),
      File("e", TRUE, Meta(JsUndefined), TRUE),
      File("da", TRUE, Meta(JsStr(<<"a">>)), FALSE),
      File("dB", TRUE, Meta(JsStr(<<"B">>)), TRUE)}

\* My Rituals: batches of distinct archives picked, packs opened, the panel
\* closed.
NextPacks ==
  \/ Quiet /\ \E n \in 1..MaxBatch : \E files \in [1..n -> PackFiles] :
       /\ \A i, j \in 1..n : files[i] = files[j] => i = j
       /\ handleRitualMintFilesPicked(files)
  \/ Quiet /\ \E i \in 1..Len(packs) : openPack(packs[i])
  \/ Quiet /\ closeMyRituals

SpecPacks == Init /\ [][NextPacks]_vars

\* Both sources chosen and BIG's metadata known; SMALL's metadata is known or
\* still to come.
InitSync ==
  /\ bgSrc = "file" /\ bgDur = MaxDur
  /\ muSrc = "file" /\ muDur \in {0, MaxDur - 1}
  /\ bgTime = 0 /\ muTime = 0
  /\ bgPaused = TRUE /\ muPaused = TRUE
  /\ pendingTU = {}
  /\ isPlaying = FALSE
  /\ isGlued = FALSE
  /\ glueOffsetSec = 0
  /\ prevBgTime = NULL /\ prevMuTime = NULL
  /\ glueSyncGuard = FALSE
  /\ AudioBuilt
  /\ isRecording = FALSE
  /\ recTime = 0
  /\ recorderRef = 0
  /\ recorders = [r \in RecIds |-> "none"]
  /\ recIntervalArmed = FALSE /\ recTimerArmed = FALSE
  /\ recElapsed = 0 /\ intervalDue = FALSE
  /\ drawRafRef = 0 /\ liveLoops = {}
  /\ pendingStarts = 0
  /\ ArtefactsFresh
  /\ ev = NoEv

\* Glue, global play and pause, scrubs and playback, with no take.
NextSync ==
  \/ CanClick /\ handleGlobalPlayPause
  \/ CanClick /\ toggleGlue
  \/ CanClick /\ \E k \in 0..MaxDur : k <= bgDur /\ handleBgTimelineChange(k)
  \/ CanClick /\ \E k \in 0..MaxDur : k <= muDur /\ handleMuTimelineChange(k)
  \/ Quiet /\ \E d \in Durations : muLoadedMetadata(d)
  \/ PlayTick
  \/ handleBgTimeUpdate
  \/ handleMuTimeUpdate

SpecSync == InitSync /\ [][NextSync]_vars

\* Both tracks loaded and playing with Glue just enabled: the offset is the
\* one toggleGlue captured from the two positions, and each track's last
\* time-update recorded its position.
InitLoop ==
  /\ bgSrc = "file" /\ bgDur \in Durations
  /\ muSrc = "file" /\ muDur \in Durations
  /\ bgTime \in 0..(bgDur - 1) /\ muTime \in 0..(muDur - 1)
  /\ bgPaused = FALSE /\ muPaused = FALSE
  /\ pendingTU = {}
  /\ isPlaying = TRUE
  /\ isGlued = TRUE
  /\ glueOffsetSec = muTime - bgTime
  /\ prevBgTime = bgTime /\ prevMuTime = muTime
  /\ glueSyncGuard = FALSE
  /\ AudioBuilt
  /\ isRecording = FALSE
  /\ recTime = 0
  /\ recorderRef = 0
  /\ recorders = [r \in RecIds |-> "none"]
  /\ recIntervalArmed = FALSE /\ recTimerArmed = FALSE
  /\ recElapsed = 0 /\ intervalDue = FALSE
  /\ drawRafRef = 0 /\ liveLoops = {}
  /\ pendingStarts = 0
  /\ ArtefactsFresh
  /\ ev = Ev("toggleGlue", 0)

\* Uninterrupted glued playback: the two tracks loop and their time-updates
\* are handled; the user does nothing.
NextLoop ==
  \/ PlayTick
  \/ handleBgTimeUpdate
  \/ handleMuTimeUpdate

SpecLoop == InitLoop /\ [][NextLoop]_vars

\* The audio side from construction: the faders, the loads that create the
\* SMALL element and the handlers that build the graph.  No metadata arrives,
\* so positions stay 0; none of these actions reads a position.
NextAudio ==
  \/ Quiet /\ \E w \in {"bg", "mu", "master"}, v \in Faders : SetFader(w, v)
  \/ Quiet /\ handleUploadNature
  \/ Quiet /\ handleUploadMusic
  \/ Quiet /\ \E same \in BOOLEAN : applyPreset(same)
  \/ Quiet /\ handleGlobalPlayPause
  \/ Quiet /\ handleGlobalStop
  \/ Quiet /\ handleBgPlayPause
  \/ Quiet /\ handleMuPlayPause

SpecAudio == Init /\ [][NextAudio]_vars

\* The component between construction and mount, or mounted, with nothing
\* loaded.
InitCalls ==
  /\ bgSrc = "none" /\ muSrc = "none"
  /\ bgDur = 0 /\ muDur = 0
  /\ bgTime = 0 /\ muTime = 0
  /\ bgPaused = TRUE /\ muPaused = TRUE
  /\ pendingTU = {}
  /\ isPlaying = FALSE
  /\ isGlued = FALSE
  /\ glueOffsetSec = 0
  /\ prevBgTime = NULL /\ prevMuTime = NULL
  /\ glueSyncGuard = FALSE
  /\ audioCtx = FALSE /\ muConnected = FALSE
  /\ bgVol = InitialFader /\ muVol = InitialFader /\ masterVol = InitialFader
  /\ bgEl \in BOOLEAN
  /\ bgVolume = (IF bgEl THEN bgVol * masterVol ELSE Full)
  /\ muVolume = Full
  /\ bgGain = NULL /\ muGain = NULL /\ masterGain = NULL
  /\ ctxCount = 0 /\ muConnects = 0
  /\ isRecording = FALSE
  /\ recTime = 0
  /\ recorderRef = 0
  /\ recorders = [r \in RecIds |-> "none"]
  /\ recIntervalArmed = FALSE /\ recTimerArmed = FALSE
  /\ recElapsed = 0 /\ intervalDue = FALSE
  /\ drawRafRef = 0 /\ liveLoops = {}
  /\ pendingStarts = 0
  /\ ArtefactsFresh
  /\ ev = NoEv

\* The commit that attaches the BIG <video> to bgRef, followed by the mount
\* run of the volume effect.
MountBig ==
  /\ ~bgEl
  /\ bgEl' = TRUE
  /\ bgVolume' = (IF DirectMode THEN bgVol * masterVol ELSE bgVolume)
  /\ ev' = NoEv
  /\ UNCHANGED <<mediaVars, isPlaying, glueVars, audioCtx, muConnected, faderVars,
                 muVolume, bgGain, muGain, masterGain, ctxCount, muConnects,
                 recVars>>

\* A call of ensureAudioContext by itself.
\* ev.arg: 0 the context existed, 1 the graph was built, 2 the call threw
\* after recording the context (no BIG element).
CallEnsureAudioContext ==
  /\ ensureAudioContext
  /\ ev' = Ev("ensureAudioContext", IF ContextExists THEN 0
                                    ELSE IF bgEl THEN 1 ELSE 2)
  /\ UNCHANGED <<mediaVars, isPlaying, glueVars, muConnected, muGain, muConnects,
                 recVars>>

\* The helper functions called one at a time, over the contents that the refs
\* they read can have, with the events of the sessions they start.
NextCalls ==
  \/ Quiet /\ MountBig
  \/ Quiet /\ CallEnsureAudioContext
  \/ Quiet /\ startRecording
  \/ Quiet /\ StartRecResume
  \/ Quiet /\ bgEl /\ handleGlobalStop
  \/ Quiet /\ \E r \in RecIds : RecOnStop(r)
  \/ Quiet /\ bgEl /\ handleUploadNature
  \/ Quiet /\ \E d \in Durations : bgEl /\ bgLoadedMetadata(d)
  \/ handleBgTimeUpdate

SpecCalls == InitCalls /\ [][NextCalls]_vars

\* ----------------------------------------------------------------- claims
\* Distance between two positions of a track of duration n that loops.
CircDist(a, b, n) ==
  LET d == (a - b) % n IN IF d <= n - d THEN d ELSE n - d

\* Both tracks are playing under an active Glue and every time-update has
\* been handled.
GluedPlayback ==
  /\ isGlued /\ isPlaying /\ ~isRecording
  /\ ~bgPaused /\ ~muPaused
  /\ bgDur > 0 /\ muDur > 0
  /\ pendingTU = {}

\* C1: while Glue is on, both tracks play and no recording runs, SMALL stays
\* at BIG's position plus the captured offset, modulo SMALL's duration
\* (within the half second below which a jump is not told from jitter),
\* across the loop wraps of either track.
C1_GlueHoldsAcrossWraps ==
  GluedPlayback =>
    CircDist((bgTime + glueOffsetSec) % muDur, muTime, muDur) <= HalfSecond

\* C2: at most one recording session exists at any time: one encoder
\* recording and one render loop drawing frames.
C2_AtMostOneSession ==
  /\ Cardinality({r \in RecIds : recorders[r] = "recording"}) <= 1
  /\ Cardinality(liveLoops) <= 1

\* C3: every encoder that starts recording is eventually stopped and
\* finalized.
C3_EverySessionFinalizes ==
  \A r \in RecIds : (recorders[r] = "recording") ~> (recorders[r] = "none")

\* The handlers that called stopRecording.
StopOps == {"stopUser", "stopTick", "stopDeadline"}

\* One more call of stopRecording would change the state.
StopAgainChanges ==
  /\ StopOnly
  /\ ev' = ev
  /\ <<bgPaused, muPaused, isPlaying, isRecording, recorders, timerVars>>' #
       <<bgPaused, muPaused, isPlaying, isRecording, recorders, timerVars>>

\* C4: stopRecording is idempotent: in the state that one call leaves,
\* whichever trigger made it, a further call changes nothing.
C4_StopIdempotent == ev.op \in StopOps => ~ENABLED StopAgainChanges

\* C5: when the tick or the deadline stops the session, both triggers are
\* cancelled and neither can fire again, and the encoder the session refers
\* to is no longer recording; either trigger does this on its own.
C5_FirstTriggerCancelsOther ==
  ev.op \in {"stopTick", "stopDeadline"} =>
    /\ ~recIntervalArmed /\ ~recTimerArmed
    /\ ~ENABLED IntervalFire /\ ~ENABLED DeadlineFire
    /\ recorderRef # 0 => recorders[recorderRef] # "recording"

\* The deadline stopped the session while the tick of the same second was
\* still due.
C5_Witness ==
  /\ ev = Ev("stopDeadline", 1)
  /\ recorderRef # 0 /\ recorders[recorderRef] = "stopping"

\* What the glue, scrub and playback handlers never write.
SessionVars == <<isRecording, recTime, recorderRef, recorders, timerVars,
                 loopVars, pendingStarts>>

\* C6: a time-update handled while Glue is off, the global transport is not
\* playing or a recording runs writes no track position: it records the
\* track's own previous time and nothing else.
C6_SuppressedSyncWritesNothing ==
  [][ (ev'.op \in {"bgTU", "muTU"} /\ (~isGlued \/ ~isPlaying \/ isRecording)) =>
        /\ bgTime' = bgTime /\ muTime' = muTime
        /\ pendingTU' \subseteq pendingTU
        /\ ev'.op = "bgTU" => prevBgTime' = bgTime /\ prevMuTime' = prevMuTime
        /\ ev'.op = "muTU" => prevMuTime' = muTime /\ prevBgTime' = prevBgTime
        /\ UNCHANGED <<bgSrc, muSrc, bgDur, muDur, bgPaused, muPaused, isPlaying,
                       isGlued, glueOffsetSec, glueSyncGuard, audioVars,
                       SessionVars>> ]_vars

\* BIG's time-update saw a jump backwards with Glue on and the transport playing,
\* during a recording, and SMALL was not moved: no event of SMALL is queued.
C6_Witness ==
  /\ ev = Ev("bgTU", 1)
  /\ isGlued /\ isPlaying /\ isRecording
  /\ muDur > 0 /\ "mu" \notin pendingTU

\* C7: with Glue on, a scrub of one track puts the partner at the scrubbed
\* position plus (BIG scrubbed) or minus (SMALL scrubbed) the offset, taken
\* modulo the partner's duration, which lies in [0, duration).
C7_ScrubRepositionsPartner ==
  /\ (ev.op = "bgScrub" /\ isGlued /\ bgDur > 0 /\ muDur > 0) =>
        /\ muTime = (bgTime + glueOffsetSec) % muDur
        /\ muTime \in 0..(muDur - 1)
  /\ (ev.op = "muScrub" /\ isGlued /\ muDur > 0 /\ bgDur > 0) =>
        /\ bgTime = (muTime - glueOffsetSec) % bgDur
        /\ bgTime \in 0..(bgDur - 1)

\* BIG was scrubbed to a position whose sum with the offset is negative.
C7_Witness ==
  /\ ev.op = "bgScrub" /\ isGlued /\ muDur > 0
  /\ bgTime + glueOffsetSec < 0
  /\ (bgTime + glueOffsetSec) % muDur # 0

\* C8: the offset changes only in a call of toggleGlue that turns Glue on.
C8_OffsetChangesOnlyOnEnable ==
  [][ glueOffsetSec' # glueOffsetSec =>
        ev'.op = "toggleGlue" /\ ~isGlued /\ isGlued' ]_vars

\* Glue was turned off with an offset that the positions no longer give, and
\* the offset was kept.
C8_Witness ==
  /\ ev = Ev("toggleGlue", 0)
  /\ ~isGlued /\ MuExists
  /\ glueOffsetSec # 0
  /\ glueOffsetSec # muTime - bgTime

\* C9: turning Glue on sets the offset to SMALL's position minus BIG's
\* position at that moment, whatever offset was captured before.
C9_EnableCapturesDifference ==
  (ev.op = "toggleGlue" /\ isGlued) => glueOffsetSec = muTime - bgTime

\* Glue was turned on and replaced an offset captured earlier.
C9_Witness == ev = Ev("toggleGlue", 2) /\ isGlued

\* C10: toggleGlue without a SMALL source leaves Glue and the offset as they
\* are; with a SMALL source it flips Glue.
C10_ToggleNeedsSmall ==
  [][ ev'.op = "toggleGlue" =>
        IF muSrc = "none"
          THEN isGlued' = isGlued /\ glueOffsetSec' = glueOffsetSec
          ELSE isGlued' = ~isGlued ]_vars

\* toggleGlue was called without a SMALL source and Glue is off.
C10_Witness == ev.op = "toggleGlue" /\ muSrc = "none" /\ ~isGlued

\* C11: while the audio graph has not been built, each existing track
\* element's volume is its own fader times the master fader, also for a SMALL
\* element created after the last fader change.
C11_DirectVolumeIsProduct ==
  ~audioCtx =>
    /\ bgEl => bgVolume = bgVol * masterVol
    /\ MuExists => muVolume = muVol * masterVol

\* C12: once the graph is built, the BIG and master gain nodes, and SMALL's
\* when connected, hold the current fader values and both elements stay at
\* volume 1.
C12_GraphGainsFollowFaders ==
  audioCtx =>
    /\ bgGain = bgVol /\ masterGain = masterVol
    /\ muConnected => muGain = muVol
    /\ bgVolume = Full
    /\ MuExists => muVolume = Full

\* A fader was moved after the graph was built with SMALL connected, to a
\* value other than the initial one.
C12_Witness ==
  /\ ev.op = "setFader" /\ audioCtx /\ muConnected
  /\ muVol # InitialFader /\ masterVol # InitialFader /\ bgVol # InitialFader

\* C13: the audio graph is built at most once: one context is ever created,
\* and once it exists it stays, with its BIG and master gain nodes, whatever
\* is called later.
C13_GraphBuiltOnce ==
  /\ [](ctxCount <= 1)
  /\ [][audioCtx => /\ audioCtx' /\ ctxCount' = ctxCount
                    /\ bgGain' # NULL /\ masterGain' # NULL
                    /\ bgVolume' = bgVolume /\ muVolume' = Full]_vars

\* Play/Pause called ensureAudioContext again with the graph already built.
C13_Witness == ev.op = "globalPlayPause" /\ ev.arg >= 1 /\ ctxCount = 1

\* C14: ensureMiniConnected connects SMALL once, when the graph and SMALL's
\* element both exist, setting its gain to the SMALL fader; without the graph
\* or without the element, and on every call after the connection, it does
\* nothing.
C14_MiniConnectedOnce ==
  /\ [](muConnects <= 1 /\ (muConnected => audioCtx /\ MuExists))
  /\ [][/\ muConnected' # muConnected =>
             /\ ~muConnected /\ audioCtx' /\ MuExists
             /\ muGain' = muVol /\ muConnects' = muConnects + 1
        /\ muConnected' = muConnected => muConnects' = muConnects
        /\ (ev'.op = "globalPlayPause" /\ audioCtx' /\ MuExists) => muConnected'
       ]_vars

\* Play/Pause called ensureMiniConnected with SMALL already connected.
C14_Witness == ev = Ev("globalPlayPause", 2) /\ muConnects = 1

C16_StartNeedsGraphAndBig ==
  [][ (ev'.op = "startRecording" /\ (~audioCtx \/ masterGain = NULL \/ ~bgEl)) =>
        UNCHANGED <<recVars, audioVars, mediaVars, isPlaying, glueVars>> ]_vars

\* startRecording returned at its guard with a context but no master gain.
C16_Witness ==
  /\ ev = Ev("startRecording", 0)
  /\ audioCtx /\ masterGain = NULL
  /\ recorderRef = 0 /\ liveLoops = {} /\ pendingStarts = 0

\* C17: when stopRecording returns both stop triggers are cancelled, the
\* render loop is cancelled (no animation frame stays scheduled), both tracks
\* are paused and isPlaying is false; the encoder that was recording has been
\* asked to finalize, and with no encoder recording isRecording is false.
C17_StopReleasesSession ==
  [][ ev'.op \in StopOps =>
        /\ ~recIntervalArmed' /\ ~recTimerArmed'
        /\ liveLoops' = {}
        /\ bgPaused' /\ muPaused' /\ ~isPlaying'
        /\ IF recorderRef # 0 /\ recorders[recorderRef] = "recording"
             THEN recorders'[recorderRef] = "stopping"
             ELSE ~isRecording'
    ]_vars

\* C18: when a session finalizes, the deliverable published is made of the
\* non-empty chunks the session received, in arrival order, and the session's
\* state is cleared: no recorder reference, an empty chunk buffer, both
\* timers off, the session's audio tap and capture stream released,
\* isRecording false, recTime 0, and the save panel shown.
C18_FinalizePublishesAndClears ==
  ev.op = "onstop" =>
    /\ pendingRecordedBlob = ev.chunks
    /\ recorderRef = 0
    /\ recordedChunks = <<>>
    /\ ~recIntervalArmed /\ ~recTimerArmed
    /\ recordAudioDestRef = 0 /\ ev.arg \notin taps
    /\ ~isRecording /\ recTime = 0
    /\ showSavePanel

\* C19: the payload published at finalize is the one generated when that
\* session started: its id and its volumes are those taken at record start,
\* whatever happened to the faders or anything else during the take.
C19_PublishedPayloadIsStartPayload ==
  ev.op = "onstop" => pendingQrPayload = startPayload[ev.arg]

\* C20: every slot (BIG source, SMALL source, pending recording, opened
\* pack) holds at most one live object URL: no handler replaces or clears a
\* slot's object URL without revoking it.
C20_OneLiveUrlPerSlot == ev.dropped = {}

\* C22: isGoodwillsQRPayload accepts a text exactly when the text is JSON for
\* an object with a string id that starts with "gw-", a string createdAt and
\* a volumes object whose big, small and master are numbers; every other
\* text, text that is not JSON included, is rejected and nothing is thrown.
C22_PayloadCheckAcceptsExactlyShape ==
  ev.op = "isGoodwillsQRPayload" =>
    LET txt == ev.out.res[1]
        obj == txt.val
    IN /\ ev.out.threw = ""
       /\ ev.out.res[2] <=>
            /\ txt.syntax = "json"
            /\ obj.t = "object"
            /\ obj.id.t = "string"
            /\ Len(obj.id.v) >= 3
            /\ obj.id.v[1] = "g" /\ obj.id.v[2] = "w" /\ obj.id.v[3] = "-"
            /\ obj.createdAt.t = "string"
            /\ obj.volumes.t = "object"
            /\ obj.volumes.big.t = "number"
            /\ obj.volumes.small.t = "number"
            /\ obj.volumes.master.t = "number"

\* A text with the marker alone as id, an empty createdAt and a zero volume
\* was accepted.
C22_Witness ==
  /\ ev.op = "isGoodwillsQRPayload"
  /\ ev.out.res[2]
  /\ ev.out.res[1].val.id.v = GwMarker
  /\ ev.out.res[1].val.createdAt.v = <<>>
  /\ ev.out.res[1].val.volumes.big = JsNum(0)

\* C23: the scan visits the sample timestamps below the clip's duration in
\* increasing order, the crop before the full frame at each; it returns the
\* first decode that passes the payload check and visits nothing after it;
\* when no decode is accepted it returns the not-found result; it never throws.
C23_ScanFirstMatchWins ==
  ev.op = "scan" =>
    /\ ev.out.threw = ""
    /\ LET clip == ev.out.res[1]
           r == ev.out.res[2]
           vis == r.visited
           n == Len(vis)
           lim == IF clip.dur = 0 THEN 9999 * 20 ELSE clip.dur
           below == {ScanTimes[i] : i \in {k \in 1..Len(ScanTimes) : ScanTimes[k] < lim}}
           at(i) == IF vis[i][2] = "crop" THEN clip.frames[vis[i][1]].crop
                                          ELSE clip.frames[vis[i][1]].full
           good(txt) == txt # NoText /\ isGoodwillsQRPayload(txt)
           seen(t, w) == \E i \in 1..n : vis[i] = <<t, w>>
       IN /\ \A i \in 1..n : vis[i][1] \in below
          /\ \A i \in 1..n, j \in 1..n :
               i < j => \/ vis[i][1] < vis[j][1]
                        \/ vis[i][1] = vis[j][1] /\ vis[i][2] = "crop" /\ vis[j][2] = "full"
          /\ \A i \in 1..n :
               /\ vis[i][2] = "full" => seen(vis[i][1], "crop")
               /\ \A t \in below : t < vis[i][1] => seen(t, "crop") /\ seen(t, "full")
          /\ \A i \in 1..n : i < n => ~good(at(i))
          /\ r.ok => /\ n > 0 /\ good(at(n))
                     /\ r.payloadText = at(n) /\ r.payload = at(n).val
          /\ ~r.ok => /\ \A t \in below : seen(t, "crop") /\ seen(t, "full")
                      /\ n > 0 => ~good(at(n))

\* C24: minting with a payload the scan accepted produces a metadata document
\* whose id, createdAt and volumes are the scanned payload's and whose qr is
\* the raw scanned text, in an archive named <id>.mint with the entries
\* mint.json and video.webm.
C24_MintKeepsScannedPayload ==
  [][ (ev'.op = "mintConfirm" /\ ev'.out.file # <<>>) =>
        LET doc == ev'.out.content.doc
        IN /\ mintQrText.syntax = "json" /\ mintQrPayload = mintQrText.val
           /\ \E i \in 1..Len(ScanTimes) :
                mintQrText \in {mintFile.frames[ScanTimes[i]].crop,
                                mintFile.frames[ScanTimes[i]].full}
           /\ doc.id = mintQrPayload.id
           /\ doc.createdAt = mintQrPayload.createdAt
           /\ doc.volumes = mintQrPayload.volumes
           /\ doc.qr = mintQrText
           /\ ev'.out.file = mintQrPayload.id.v \o <<".mint">>
           /\ ev'.out.content.entries = {"mint.json", "video.webm"}
           /\ ev'.out.content.video = mintFile
    ]_vars

\* A payload with an empty createdAt was minted.
C24_Witness ==
  /\ ev.op = "mintConfirm" /\ ev.out.file = <<"g", "w", "-", "1", ".mint">>
  /\ ev.out.content.doc.createdAt = JsStr(<<>>)
  /\ ev.out.content.doc.qr = GoodText("1", <<>>)

\* C29: when the digest fails the mint still completes: the archive is
\* produced with an empty sha256 and every other field of the document as
\* when the digest succeeds.
C29_HashFailureLeavesFieldBlank ==
  [][ (ev'.op = "mintConfirm" /\ ev'.arg \in {0, 1}) =>
        LET doc == ev'.out.content.doc
        IN /\ ev'.out.file = mintQrPayload.id.v \o <<".mint">>
           /\ ev'.out.content.entries = {"mint.json", "video.webm"}
           /\ doc.sha256 = (IF ev'.arg = 1 THEN "" ELSE <<"sha256", mintFile.name>>)
           /\ doc.signature = "GOODWILLS.MINT"
           /\ doc.id = mintQrPayload.id
           /\ doc.createdAt = mintQrPayload.createdAt
           /\ doc.volumes = mintQrPayload.volumes
           /\ doc.qr = mintQrText
           /\ doc.webmFileName = mintFile.name
           /\ ~showMintModal'
    ]_vars

\* A mint completed with the digest failed.
C29_Witness ==
  /\ ev.op = "mintConfirm" /\ ev.arg = 1
  /\ ev.out.file # <<>> /\ ev.out.content.doc.sha256 = ""
  /\ ~showMintModal

\* C30: when the picked file carries no recognizable QR the mint is aborted
\* with a rejection the user sees and no exception, and the operation sets
\* no mint state: file, preview URL, payload and text stay as Mint cleared
\* them and the dialog is not opened.
C30_NoQrRejectsAndKeepsNothing ==
  [][ (ev'.op = "mintScanDone" /\ ev'.arg # 0) =>
        /\ ev'.out.alert # "" /\ ev'.out.threw = ""
        /\ UNCHANGED <<mintFile, mintPreviewUrl, mintQrPayload, mintQrText,
                       showMintModal>>
    ]_vars

\* C25: an archive with mint.json and without video.webm is read into a pack
\* holding the parsed metadata and a null video, and opening a pack with a
\* null video leaves no preview URL and throws nothing.
C25_PackWithoutVideoOpens ==
  /\ (ev.op = "importPacks" /\ ev.arg = 0) =>
       \A i \in 1..Len(ev.out.res[1]) :
         LET f == ev.out.res[1][i]
         IN (f.zip /\ f.meta.syntax = "json" /\ ~f.video) =>
              \E j \in 1..Len(packs) :
                packs[j] = [fileName |-> f.name, data |-> f.meta.val, videoBlob |-> FALSE]
  /\ (ev.op = "openPack" /\ ~ev.out.res[1].videoBlob) =>
       ~selectedPackVideoUrl /\ ev.out.threw = ""

\* The pack read from the archive without a video is opened.
C25_Witness ==
  /\ ev.op = "openPack" /\ ev.out.res[1].fileName = "da"
  /\ ev.out.res[1].data.createdAt = JsStr(<<"a">>)
  /\ ~ev.out.res[1].videoBlob /\ ~selectedPackVideoUrl

\* C26: an archive without mint.json, with a video entry or without, is
\* rejected with the reason "mint.json not found", which no archive that has
\* the entry gets, and no pack of the list comes from it.
C26_NoMetadataIsNotAPack ==
  ev.op = "importPacks" =>
    \A i \in 1..Len(ev.out.res[1]) :
      LET f == ev.out.res[1][i]
          rejected == \E k \in 1..Len(ev.out.res[2]) :
                        ev.out.res[2][k] = <<f.name, "mint.json not found">>
      IN IF f.zip /\ f.meta.syntax = "none"
           THEN rejected /\ \A j \in 1..Len(packs) : packs[j].fileName # f.name
           ELSE ~rejected

\* Archives without mint.json, one with a video and one without, were picked
\* with a pack: the pack alone is listed.
C26_Witness ==
  /\ ev.op = "importPacks" /\ Len(ev.out.res[1]) = 3
  /\ {ev.out.res[1][i].name : i \in 1..3} = {"m0", "m1", "dB"}
  /\ Len(ev.out.res[2]) = 2
  /\ Len(packs) = 1 /\ packs[1].fileName = "dB"

C28_FailuresAreIsolated ==
  ev.op = "importPacks" =>
    LET files == ev.out.res[1]
        good == {i \in 1..Len(files) : files[i].zip /\ files[i].meta.syntax = "json"}
    IN /\ ev.out.threw = ""
       /\ Len(packs) = Cardinality(good)
       /\ {packs[j].fileName : j \in 1..Len(packs)} = {files[i].name : i \in good}

\* C21: confirming the save downloads the pending recording under the name
\* goodwills_ritual_<id of the pending payload>.webm, discarding revokes the
\* pending recording's URL, and after either the pending blob, URL and
\* payload are cleared and the panel is closed.
C21_SaveDecisionsClearPending ==
  [][ ev'.op \in {"saveConfirm", "saveCancel"} =>
        /\ (ev'.op = "saveConfirm" /\ pendingRecordedUrl /\ pendingQrPayload # NoPayload) =>
             /\ ev'.out.file = <<"goodwills_ritual_", pendingQrPayload.id, ".webm">>
             /\ ev'.out.content = pendingRecordedBlob
        /\ (ev'.op = "saveCancel" /\ pendingRecordedUrl) => "rec" \in ev'.out.revoked
        /\ pendingRecordedBlob' = <<>>
        /\ ~pendingRecordedUrl'
        /\ pendingQrPayload' = NoPayload
        /\ ~showSavePanel'
    ]_vars

\* A recording that holds a chunk was downloaded under its payload's id.
C21_Witness ==
  /\ ev.op = "saveConfirm"
  /\ ev.out.file = <<"goodwills_ritual_", 1, ".webm">>
  /\ ev.out.content # <<>>
  /\ ~showSavePanel /\ ~pendingRecordedUrl /\ pendingQrPayload = NoPayload

\* C31: the time-update that a track emits for a position written by the
\* other track's loop re-sync triggers no re-sync back: the handler that
\* runs for it writes no position.
C31_ResyncWriteIsNotEchoed ==
  [][ /\ (ev.op = "bgTU" /\ ev.out.res # <<>> /\ ev'.op = "muTU") =>
           ev'.out.res = <<>> /\ bgTime' = bgTime
      /\ (ev.op = "muTU" /\ ev.out.res # <<>> /\ ev'.op = "bgTU") =>
           ev'.out.res = <<>> /\ muTime' = muTime
    ]_vars

\* C32: with sync active (Glue on, playing, no take) a time-update of a
\* track whose reading is more than half a second below its previous reading
\* sets the other track to its position plus (duration - previous) + reading,
\* modulo the other track's duration; in every other case, among them no
\* previous reading and no valid duration of the other track, the handler
\* writes nothing.
C32_WrapAdvancesPartner ==
  [][ /\ (ev'.op = "bgTU" /\ bgDur > 0 /\ isGlued /\ isPlaying /\ ~isRecording) =>
           IF prevBgTime # NULL /\ bgTime < prevBgTime - HalfSecond /\ muDur > 0
             THEN /\ muTime' = (muTime + (bgDur - prevBgTime) + bgTime) % muDur
                  /\ ev'.out.res = <<"mu", muTime'>>
             ELSE muTime' = muTime /\ ev'.out.res = <<>>
      /\ (ev'.op = "muTU" /\ muDur > 0 /\ isGlued /\ isPlaying /\ ~isRecording) =>
           IF prevMuTime # NULL /\ muTime < prevMuTime - HalfSecond /\ bgDur > 0
             THEN /\ bgTime' = (bgTime + (muDur - prevMuTime) + muTime) % bgDur
                  /\ ev'.out.res = <<"bg", bgTime'>>
             ELSE bgTime' = bgTime /\ ev'.out.res = <<>>
    ]_vars

\* BIG wrapped under an active sync and SMALL was written.
C32_Witness ==
  /\ ev.op = "bgTU" /\ ev.arg = 1 /\ ev.out.res = <<"mu", muTime>>
  /\ isGlued /\ isPlaying /\ bgTime = 0

\* C35: while Glue is on and the tracks play, the time-update of a track
\* that follows a manual scrub of that track is not taken for a loop wrap:
\* the partner keeps the position the scrub handler gave it.
C35_ScrubIsNotAWrap ==
  [][ (isGlued /\ isPlaying /\ ~isRecording) =>
        /\ (ev.op = "bgScrub" /\ ev'.op = "bgTU") =>
             /\ muTime' = muTime /\ ev'.out.res = <<>>
             /\ muDur > 0 => muTime' = (bgTime + glueOffsetSec) % muDur
        /\ (ev.op = "muScrub" /\ ev'.op = "muTU") =>
             /\ bgTime' = bgTime /\ ev'.out.res = <<>>
             /\ bgDur > 0 => bgTime' = (muTime - glueOffsetSec) % bgDur
    ]_vars

\* C33: a render loop has a frame callback scheduled only for a session whose
\* encoder has started and has not finalized: none before the start, none
\* after the stop callback of its session, none after a start that failed or
\* a stop that found no active encoder.
C33_LoopOnlyDuringSession ==
  \A l \in RecIds : l \in liveLoops => recorders[l] \in {"recording", "stopping"}

\* C34: the stop callback of a session leaves the resources of another
\* session that is recording alone: its render loop, its timers, the
\* recorder reference and chunk buffer it owns, its audio tap and capture
\* stream, and the recording flag.
C34_FinalizeSparesNewSession ==
  [][ ev'.op = "onstop" =>
        \A q \in RecIds \ {ev'.arg} :
          (recorders[q] = "recording" /\ recorderRef = q) =>
            /\ recorders'[q] = "recording"
            /\ q \in liveLoops => q \in liveLoops'
            /\ recorderRef' = q
            /\ recIntervalArmed' = recIntervalArmed
            /\ recTimerArmed' = recTimerArmed
            /\ recordedChunks' = recordedChunks
            /\ q \in taps => q \in taps'
            /\ recordAudioDestRef = q => recordAudioDestRef' = q
            /\ isRecording' = isRecording
    ]_vars

\* C36: the elapsed-seconds counter stays in 0..99: a tick raises it by
\* exactly 1, except the tick that would raise it to 100, which stops the
\* session and sets the counter to 0.
C36_CounterBelowLimit ==
  [][ /\ recTime \in 0..99 /\ recTime' \in 0..99
      /\ ev'.op = "tick" => recTime' = recTime + 1
      /\ ev'.op = "stopTick" =>
           /\ recTime = 99 /\ recTime' = 0
           /\ ~recIntervalArmed' /\ ~recTimerArmed'
           /\ recorderRef # 0 => recorders'[recorderRef] # "recording"
    ]_vars

\* The hundredth tick stopped a take that had counted 99 seconds.
C36_Witness ==
  /\ ev.op = "stopTick" /\ recTime = 0 /\ recElapsed = 0
  /\ recorderRef # 0 /\ recorders[recorderRef] = "stopping"

\* C37: while isRecording is true a per-track play/pause or stop button
\* changes nothing, and global play/pause, global stop and mint do what
\* stop() does and nothing else: no position is written or set to 0, no track
\* is started, and the mint dialog's state is not touched.
C37_TransportLockedWhileRecording ==
  [][ isRecording =>
        /\ ev'.op \in {"bgPlayPause", "bgStop", "muPlayPause", "muStop"} =>
             UNCHANGED <<mediaVars, isPlaying, glueVars, audioVars, recVars>>
        /\ ev'.op = "stopUser" =>
             /\ UNCHANGED <<bgSrc, muSrc, bgDur, muDur, bgTime, muTime, pendingTU,
                            glueVars, audioVars, recTime, mintVars,
                            selectedPackVideoUrl, saveVars>>
             /\ bgPaused' /\ muPaused' /\ ~isPlaying'
             /\ ~recIntervalArmed' /\ ~recTimerArmed'
             /\ recorderRef # 0 => recorders'[recorderRef] # "recording"
    ]_vars

\* A per-track stop pressed during a take, with BIG playing away from 0.
C37_Witness ==
  /\ ev.op = "bgStop" /\ isRecording /\ isPlaying /\ ~bgPaused /\ bgTime > 0

\* C38: Glue is enabled only while SMALL has a source, and a new BIG file, a
\* new SMALL file or a preset leaves Glue disabled, so that the offset in use
\* while Glue is enabled is the one captured at the last enabling, after the
\* last load.
C38_GlueNeedsSmallAndLoadsDisable ==
  [][ /\ isGlued' => muSrc' # "none"
      /\ ev'.op \in {"uploadNature", "uploadMusic", "applyPreset"} => ~isGlued'
      /\ (isGlued /\ isGlued') => glueOffsetSec' = glueOffsetSec
      /\ (~isGlued /\ isGlued') => glueOffsetSec' = muTime - bgTime
    ]_vars

\* A new SMALL file chosen while Glue was enabled with a non-zero offset.
C38_Witness ==
  /\ ev.op = "uploadMusic" /\ ~isGlued /\ glueOffsetSec # 0 /\ muSrc = "file"
  /\ muDur = 0 /\ bgDur > 0

\* C39: the isPlaying flag is true exactly when at least one of the two
\* tracks is playing.
C39_IsPlayingMatchesTracks ==
  isPlaying <=> (~bgPaused \/ (MuExists /\ ~muPaused))
====
